---- MODULE Spec2Model ----
(***************************************************************************)
(* The WeddingRegistry contract (contracts/WeddingRegistry.sol) as a state *)
(* machine.  A transaction executes atomically: it either runs to its end  *)
(* or reverts with the message of the first failing require and leaves     *)
(* the storage as it was.  Item ids are 0-based as in the contract; the    *)
(* array `items` is a TLA+ sequence, so item id lives at items[id + 1].    *)
(***************************************************************************)
EXTENDS Integers, Sequences, FiniteSets, TLC

\* ------------------------------------------------------------------ bounds

\* The most items addItem may append.
MaxItems == 2

\* The number of new blocks (each with a later timestamp) the chain may mine.
MaxBlocks == 1

\* The most markAsPurchased transactions in flight at once for one item.
MaxRace == 2

\* The most POST /purchase requests the relayer handles, concurrently or not.
MaxRequests == 2

\* ------------------------------------------------------------- input sets

\* address(0), which no account can sign for.
ZeroAddress == "0x0"

\* The accounts that send transactions: the deployer and a guest/relayer.
Callers == {"deployer", "guest"}

\* addItem / updateItem arguments: every field differs between the two
\* values and within a value, so a field that is dropped or swapped shows.
ItemTexts ==
    { [name |-> "Item 1", description |-> "Desc 1", url |-> "url1", imageUrl |-> "img1"],
      [name |-> "Item 2", description |-> "Desc 2", url |-> "url2", imageUrl |-> "img2"] }

\* Ciphertexts handed to markAsPurchased; "" is the empty string.
NonEmptyNames == {"enc", "enc2"}

EncNames == NonEmptyNames \cup {""}

\* Item ids a caller may pass: the valid ones and one past the cap.
ItemIds == 0..MaxItems

\* ------------------------------------------------------------------ state

VARIABLES
    owner,   \* address public owner
    items,   \* RegistryItem[] public items
    now,     \* block.timestamp of the block being mined
    addLog,  \* the itemId of every ItemAdded event emitted so far, in order
    race,    \* markAsPurchased transactions in flight for one item, and their receipts
    env,     \* process.env of the relayer
    proc,    \* the relayer process: its connection to the store, its health answers
    reqs,    \* the POST /purchase requests of the relayer, each with its position
    list     \* the GET /items request of the relayer, with its position

vars == <<owner, items, now, addLog, race, env, proc, reqs, list>>

\* The state of the relayer, which no transaction of the contract touches.
relayer == <<env, proc, reqs, list>>

\* The revert messages of the contract's require statements.
Ok == "ok"

NotOwner == "Only owner can call this function"

InvalidId == "Invalid item ID"

UpdateDeleted == "Cannot update deleted item"

AlreadyDeleted == "Item already deleted"

ItemRemovedMsg == "Item has been removed"

AlreadyPurchased == "Item already purchased"

EmptyName == "Purchaser name required"

ResetDeleted == "Cannot reset deleted item"

NullTarget == "New owner cannot be zero address"

\* struct RegistryItem as addItem builds it.
RegistryItem(name, description, url, imageUrl) ==
    [ name |-> name,
      description |-> description,
      url |-> url,
      imageUrl |-> imageUrl,
      isPurchased |-> FALSE,
      isDeleted |-> FALSE,
      encryptedPurchaserName |-> "",
      purchasedAt |-> 0 ]

\* items[itemId] of the contract.
ItemAt(itemId) == items[itemId + 1]

\* The outcome of a transaction: its status and the storage it leaves.
\* A revert undoes every write, so it leaves the storage of the pre-state.
Revert(msg) == [status |-> msg, owner |-> owner, items |-> items, added |-> <<>>]

Commit(newOwner, newItems, added) ==
    [status |-> Ok, owner |-> newOwner, items |-> newItems, added |-> added]

\* modifier onlyOwner
onlyOwner(sender) == sender = owner

\* modifier validItemId
validItemId(itemId) == itemId < Len(items)

\* ------------------------------------------------------------- operations

\* addItem: onlyOwner; push the new item and emit ItemAdded(items.length - 1).
addItem(sender, name, description, url, imageUrl) ==
    IF ~onlyOwner(sender) THEN Revert(NotOwner)
    ELSE LET newItem == RegistryItem(name, description, url, imageUrl)
             pushed == Append(items, newItem)
         IN  Commit(owner, pushed, <<Len(pushed) - 1>>)

\* Mutant of updateItem: the update makes the item available again.
updateItemClearsPurchase(sender, itemId, name, description, url, imageUrl) ==
    IF ~onlyOwner(sender) THEN Revert(NotOwner)
    ELSE IF ~validItemId(itemId) THEN Revert(InvalidId)
    ELSE IF ItemAt(itemId).isDeleted THEN Revert(UpdateDeleted)
    ELSE Commit(owner,
                [items EXCEPT ![itemId + 1].name = name,
                              ![itemId + 1].description = description,
                              ![itemId + 1].url = url,
                              ![itemId + 1].imageUrl = imageUrl,
                              ![itemId + 1].isPurchased = FALSE],
                <<>>)

\* updateItem: onlyOwner, validItemId, not deleted; overwrite the four texts.
updateItem(sender, itemId, name, description, url, imageUrl) ==
    IF ~onlyOwner(sender) THEN Revert(NotOwner)
    ELSE IF ~validItemId(itemId) THEN Revert(InvalidId)
    ELSE IF ItemAt(itemId).isDeleted THEN Revert(UpdateDeleted)
    ELSE Commit(owner,
                [items EXCEPT ![itemId + 1].name = name,
                              ![itemId + 1].description = description,
                              ![itemId + 1].url = url,
                              ![itemId + 1].imageUrl = imageUrl],
                <<>>)

\* Mutant of removeItem: delete items[itemId] before setting the flag.
removeItemHardDelete(sender, itemId) ==
    IF ~onlyOwner(sender) THEN Revert(NotOwner)
    ELSE IF ~validItemId(itemId) THEN Revert(InvalidId)
    ELSE IF ItemAt(itemId).isDeleted THEN Revert(AlreadyDeleted)
    ELSE Commit(owner,
                [items EXCEPT ![itemId + 1] =
                    [RegistryItem("", "", "", "") EXCEPT !.isDeleted = TRUE]],
                <<>>)

\* Mutant of removeItem: swap-and-pop, the hard delete of a resizable list.
removeItemSwapAndPop(sender, itemId) ==
    IF ~onlyOwner(sender) THEN Revert(NotOwner)
    ELSE IF ~validItemId(itemId) THEN Revert(InvalidId)
    ELSE Commit(owner,
                SubSeq([items EXCEPT ![itemId + 1] = items[Len(items)]], 1, Len(items) - 1),
                <<>>)

\* removeItem: onlyOwner, validItemId, not already deleted; set isDeleted.
removeItem(sender, itemId) ==
    IF ~onlyOwner(sender) THEN Revert(NotOwner)
    ELSE IF ~validItemId(itemId) THEN Revert(InvalidId)
    ELSE IF ItemAt(itemId).isDeleted THEN Revert(AlreadyDeleted)
    ELSE Commit(owner, [items EXCEPT ![itemId + 1].isDeleted = TRUE], <<>>)

\* Mutant of markAsPurchased: the require on the purchaser name is missing.
markAsPurchasedNoNameCheck(sender, itemId, encryptedPurchaserName) ==
    IF ~validItemId(itemId) THEN Revert(InvalidId)
    ELSE IF ItemAt(itemId).isDeleted THEN Revert(ItemRemovedMsg)
    ELSE IF ItemAt(itemId).isPurchased THEN Revert(AlreadyPurchased)
    ELSE Commit(owner, [items EXCEPT ![itemId + 1].isPurchased = TRUE,
                          ![itemId + 1].encryptedPurchaserName = encryptedPurchaserName,
                          ![itemId + 1].purchasedAt = now], <<>>)

\* Mutant of markAsPurchased: the item is flagged before the name is checked
\* and the empty name is reported without reverting the write.
markAsPurchasedSoftFail(sender, itemId, encryptedPurchaserName) ==
    IF ~validItemId(itemId) THEN Revert(InvalidId)
    ELSE IF ItemAt(itemId).isDeleted THEN Revert(ItemRemovedMsg)
    ELSE IF ItemAt(itemId).isPurchased THEN Revert(AlreadyPurchased)
    ELSE IF encryptedPurchaserName = ""
         THEN [status |-> EmptyName, owner |-> owner,
               items |-> [items EXCEPT ![itemId + 1].isPurchased = TRUE], added |-> <<>>]
    ELSE Commit(owner, [items EXCEPT ![itemId + 1].isPurchased = TRUE,
                          ![itemId + 1].encryptedPurchaserName = encryptedPurchaserName,
                          ![itemId + 1].purchasedAt = now], <<>>)

\* Mutant of markAsPurchased: the require(!item.isDeleted) is missing.
markAsPurchasedNoDeletedCheck(sender, itemId, encryptedPurchaserName) ==
    IF ~validItemId(itemId) THEN Revert(InvalidId)
    ELSE IF ItemAt(itemId).isPurchased THEN Revert(AlreadyPurchased)
    ELSE IF encryptedPurchaserName = "" THEN Revert(EmptyName)
    ELSE Commit(owner,
                [items EXCEPT ![itemId + 1].isPurchased = TRUE,
                              ![itemId + 1].encryptedPurchaserName = encryptedPurchaserName,
                              ![itemId + 1].purchasedAt = now],
                <<>>)

\* Mutant of markAsPurchased: the require(!item.isPurchased) is missing.
markAsPurchasedNoPurchasedCheck(sender, itemId, encryptedPurchaserName) ==
    IF ~validItemId(itemId) THEN Revert(InvalidId)
    ELSE IF ItemAt(itemId).isDeleted THEN Revert(ItemRemovedMsg)
    ELSE IF encryptedPurchaserName = "" THEN Revert(EmptyName)
    ELSE Commit(owner,
                [items EXCEPT ![itemId + 1].isPurchased = TRUE,
                              ![itemId + 1].encryptedPurchaserName = encryptedPurchaserName,
                              ![itemId + 1].purchasedAt = now],
                <<>>)

\* markAsPurchased: validItemId (any caller), not deleted, not purchased,
\* name not empty; set isPurchased, store the name, stamp block.timestamp.
markAsPurchased(sender, itemId, encryptedPurchaserName) ==
    IF ~validItemId(itemId) THEN Revert(InvalidId)
    ELSE IF ItemAt(itemId).isDeleted THEN Revert(ItemRemovedMsg)
    ELSE IF ItemAt(itemId).isPurchased THEN Revert(AlreadyPurchased)
    ELSE IF encryptedPurchaserName = "" THEN Revert(EmptyName)
    ELSE Commit(owner,
                [items EXCEPT ![itemId + 1].isPurchased = TRUE,
                              ![itemId + 1].encryptedPurchaserName = encryptedPurchaserName,
                              ![itemId + 1].purchasedAt = now],
                <<>>)

\* Mutant of resetItem: purchasedAt is not cleared.
resetItemKeepsTimestamp(sender, itemId) ==
    IF ~onlyOwner(sender) THEN Revert(NotOwner)
    ELSE IF ~validItemId(itemId) THEN Revert(InvalidId)
    ELSE IF ItemAt(itemId).isDeleted THEN Revert(ResetDeleted)
    ELSE Commit(owner,
                [items EXCEPT ![itemId + 1].isPurchased = FALSE,
                              ![itemId + 1].encryptedPurchaserName = ""],
                <<>>)

\* Mutant of resetItem: encryptedPurchaserName is not cleared.
resetItemKeepsName(sender, itemId) ==
    IF ~onlyOwner(sender) THEN Revert(NotOwner)
    ELSE IF ~validItemId(itemId) THEN Revert(InvalidId)
    ELSE IF ItemAt(itemId).isDeleted THEN Revert(ResetDeleted)
    ELSE Commit(owner,
                [items EXCEPT ![itemId + 1].isPurchased = FALSE,
                              ![itemId + 1].purchasedAt = 0],
                <<>>)

\* Mutant of resetItem: the require(!item.isDeleted) is missing.
resetItemNoDeletedCheck(sender, itemId) ==
    IF ~onlyOwner(sender) THEN Revert(NotOwner)
    ELSE IF ~validItemId(itemId) THEN Revert(InvalidId)
    ELSE Commit(owner,
                [items EXCEPT ![itemId + 1].isPurchased = FALSE,
                              ![itemId + 1].encryptedPurchaserName = "",
                              ![itemId + 1].purchasedAt = 0],
                <<>>)

\* resetItem: onlyOwner, validItemId, not deleted; clear the purchase record.
resetItem(sender, itemId) ==
    IF ~onlyOwner(sender) THEN Revert(NotOwner)
    ELSE IF ~validItemId(itemId) THEN Revert(InvalidId)
    ELSE IF ItemAt(itemId).isDeleted THEN Revert(ResetDeleted)
    ELSE Commit(owner,
                [items EXCEPT ![itemId + 1].isPurchased = FALSE,
                              ![itemId + 1].encryptedPurchaserName = "",
                              ![itemId + 1].purchasedAt = 0],
                <<>>)

\* Mutant of transferOwnership: the require on the new owner is missing.
transferOwnershipNoZeroCheck(sender, newOwner) ==
    IF ~onlyOwner(sender) THEN Revert(NotOwner)
    ELSE Commit(newOwner, items, <<>>)

\* Mutant of transferOwnership: the onlyOwner modifier is missing.
transferOwnershipNoOwnerCheck(sender, newOwner) ==
    IF newOwner = ZeroAddress THEN Revert(NullTarget)
    ELSE Commit(newOwner, items, <<>>)

\* transferOwnership: onlyOwner, newOwner not address(0); replace owner.
transferOwnership(sender, newOwner) ==
    IF ~onlyOwner(sender) THEN Revert(NotOwner)
    ELSE IF newOwner = ZeroAddress THEN Revert(NullTarget)
    ELSE Commit(newOwner, items, <<>>)

\* getItem: validItemId; the item whatever its flags.
getItem(itemId) ==
    IF ~validItemId(itemId) THEN [status |-> InvalidId]
    ELSE [status |-> Ok, item |-> ItemAt(itemId)]

\* ------------------------------------------------------------------ views

\* A memory array of n default-initialised items (new RegistryItem[](n)).
NewArray(n) == [k \in 1..n |-> RegistryItem("", "", "", "")]

\* Mutant of getItemCount: counts every slot, as before soft delete.
getItemCountAllSlots == Len(items)

\* getItemCount: the loop's count after each i.
getItemCount ==
    LET count[i \in 0..Len(items)] ==
            IF i = 0 THEN 0
            ELSE IF ~items[i].isDeleted THEN count[i - 1] + 1 ELSE count[i - 1]
    IN  count[Len(items)]

\* getAllItems: count the active items, allocate, then fill in index order.
getAllItems ==
    LET activeCount[i \in 0..Len(items)] ==
            IF i = 0 THEN 0
            ELSE IF ~items[i].isDeleted THEN activeCount[i - 1] + 1
                 ELSE activeCount[i - 1]
        fill[i \in 0..Len(items)] ==
            IF i = 0 THEN [arr |-> NewArray(activeCount[Len(items)]), currentIndex |-> 0]
            ELSE IF ~items[i].isDeleted
                 THEN [arr |-> [fill[i - 1].arr EXCEPT ![fill[i - 1].currentIndex + 1] = items[i]],
                       currentIndex |-> fill[i - 1].currentIndex + 1]
                 ELSE fill[i - 1]
    IN  fill[Len(items)].arr

\* getAvailableItems: the same two loops over !isDeleted && !isPurchased.
getAvailableItems ==
    LET availableCount[i \in 0..Len(items)] ==
            IF i = 0 THEN 0
            ELSE IF ~items[i].isDeleted /\ ~items[i].isPurchased
                 THEN availableCount[i - 1] + 1
                 ELSE availableCount[i - 1]
        fill[i \in 0..Len(items)] ==
            IF i = 0 THEN [arr |-> NewArray(availableCount[Len(items)]), currentIndex |-> 0]
            ELSE IF ~items[i].isDeleted /\ ~items[i].isPurchased
                 THEN [arr |-> [fill[i - 1].arr EXCEPT ![fill[i - 1].currentIndex + 1] = items[i]],
                       currentIndex |-> fill[i - 1].currentIndex + 1]
                 ELSE fill[i - 1]
    IN  fill[Len(items)].arr

\* Mutant of getPurchasedItems: both loops test isPurchased alone.
getPurchasedItemsWithDeleted ==
    LET purchasedCount[i \in 0..Len(items)] ==
            IF i = 0 THEN 0
            ELSE IF items[i].isPurchased
                 THEN purchasedCount[i - 1] + 1
                 ELSE purchasedCount[i - 1]
        fill[i \in 0..Len(items)] ==
            IF i = 0 THEN [arr |-> NewArray(purchasedCount[Len(items)]), currentIndex |-> 0]
            ELSE IF items[i].isPurchased
                 THEN [arr |-> [fill[i - 1].arr EXCEPT ![fill[i - 1].currentIndex + 1] = items[i]],
                       currentIndex |-> fill[i - 1].currentIndex + 1]
                 ELSE fill[i - 1]
    IN  fill[Len(items)].arr

\* getPurchasedItems: the same two loops over !isDeleted && isPurchased.
getPurchasedItems ==
    LET purchasedCount[i \in 0..Len(items)] ==
            IF i = 0 THEN 0
            ELSE IF ~items[i].isDeleted /\ items[i].isPurchased
                 THEN purchasedCount[i - 1] + 1
                 ELSE purchasedCount[i - 1]
        fill[i \in 0..Len(items)] ==
            IF i = 0 THEN [arr |-> NewArray(purchasedCount[Len(items)]), currentIndex |-> 0]
            ELSE IF ~items[i].isDeleted /\ items[i].isPurchased
                 THEN [arr |-> [fill[i - 1].arr EXCEPT ![fill[i - 1].currentIndex + 1] = items[i]],
                       currentIndex |-> fill[i - 1].currentIndex + 1]
                 ELSE fill[i - 1]
    IN  fill[Len(items)].arr

\* -------------------------------------------------- relayer: values

\* JavaScript values of a JSON request body and of process.env.
Undefined == [type |-> "undefined"]

Null == [type |-> "null"]

Str(s) == [type |-> "string", value |-> s]

Num(n) == [type |-> "number", value |-> n]

\* !v
Falsy(v) == v = Undefined \/ v = Null \/ v = Str("") \/ v = Num(0)

\* String.prototype.startsWith
StartsWith(s, prefix) ==
    Len(s) >= Len(prefix) /\ SubSeq(s, 1, Len(prefix)) = prefix

\* String.prototype.includes
Includes(s, part) ==
    \E i \in 1..(Len(s) - Len(part) + 1) : SubSeq(s, i, i + Len(part) - 1) = part

\* String.prototype.slice(n)
Slice(s, n) == SubSeq(s, n + 1, Len(s))

RECURSIVE TrimStart(_)
TrimStart(s) ==
    IF Len(s) > 0 /\ SubSeq(s, 1, 1) = " " THEN TrimStart(SubSeq(s, 2, Len(s))) ELSE s

RECURSIVE TrimEnd(_)
TrimEnd(s) ==
    IF Len(s) > 0 /\ SubSeq(s, Len(s), Len(s)) = " "
    THEN TrimEnd(SubSeq(s, 1, Len(s) - 1)) ELSE s

\* String.prototype.trim over strings whose whitespace is the space.
Trim(s) == TrimEnd(TrimStart(s))

\* The requests the relayer handles.
RequestIds == 1..MaxRequests

\* REGISTRY_PASSWORD as deployed.
Secret == "secret"

\* The owner's uncompressed secp256k1 public key, in hex without 0x.
OwnerKeyHex == "04abcd"

\* process.env with every variable set as the deployment guide asks.
Configured ==
    [REGISTRY_PASSWORD |-> Str(Secret), OWNER_PUBLIC_KEY |-> Str("0x04abcd"),
     FORMSPREE_ENDPOINT |-> Undefined,
     RELAYER_PRIVATE_KEY |-> Str("0x5e1f"), CONTRACT_ADDRESS |-> Str("0xC0DE")]

\* The address purchase notifications are posted to, when one is configured.
FormspreeEndpoint == "https://formspree.io/f/registry"

\* The configurations a deployment may run with: complete, without the
\* password, without the owner's key, with a key that is not a curve point,
\* and complete with the optional notification endpoint.
Envs ==
    { Configured,
      [Configured EXCEPT !.REGISTRY_PASSWORD = Undefined],
      [Configured EXCEPT !.OWNER_PUBLIC_KEY = Undefined],
      [Configured EXCEPT !.OWNER_PUBLIC_KEY = Str("0xzz")],
      [Configured EXCEPT !.FORMSPREE_ENDPOINT = Str(FormspreeEndpoint)] }

\* The address of the relayer's wallet, which signs its transactions.
RelayerWallet == "relayer"

\* The fields of a POST /purchase body.
Passwords == {Undefined, Null, Str(""), Str("wrong"), Str(Secret)}

BodyItemIds == {Undefined, Null} \cup {Num(i) : i \in ItemIds}

BodyNames == {Undefined, Str(""), Str("  "), Str(" Ann ")}

\* Every body over these fields.
AllBodies == [password : Passwords, itemId : BodyItemIds, purchaserName : BodyNames]

\* The item ids the requests of a behaviour name: the first item, and the
\* id no item ever has.
RequestedItemIds == {0, MaxItems}

\* The bodies the requests of a behaviour carry: the empty object, a wrong
\* password with otherwise valid fields, the right password with a null
\* itemId, with a blank name, and with a name for each of the ids above.
PurchaseBodies ==
    { [password |-> Undefined, itemId |-> Undefined, purchaserName |-> Undefined],
      [password |-> Str("wrong"), itemId |-> Num(0), purchaserName |-> Str(" Ann ")],
      [password |-> Str(Secret), itemId |-> Null, purchaserName |-> Str(" Ann ")],
      [password |-> Str(Secret), itemId |-> Num(0), purchaserName |-> Str("  ")] }
    \cup { [password |-> Str(Secret), itemId |-> Num(i), purchaserName |-> Str(" Ann ")] :
            i \in RequestedItemIds }

\* The responses of POST /purchase.
NoResponse == [statusCode |-> 0]

ServerConfigurationError == [statusCode |-> 500, error |-> "Server configuration error"]

InvalidPassword == [statusCode |-> 401, error |-> "Invalid password"]

ItemIdRequired == [statusCode |-> 400, error |-> "itemId is required"]

PurchaserNameRequired == [statusCode |-> 400, error |-> "purchaserName is required"]

PreCheckConflict(itemId) ==
    [statusCode |-> 409, error |-> "Item already purchased", itemId |-> itemId]

PurchaseConflict == [statusCode |-> 409, error |-> "Item already purchased"]

ItemNotFound == [statusCode |-> 404, error |-> "Item not found"]

FailedToProcess(message) ==
    [statusCode |-> 500, error |-> "Failed to process purchase", message |-> message]

PurchaseSucceeded(itemId, hash) ==
    [statusCode |-> 200, success |-> TRUE, itemId |-> itemId, transactionHash |-> hash,
     message |-> "Item marked as purchased successfully"]

\* The catch block of handlePurchase: the response is chosen by the text of
\* the error's message.
purchaseErrorResponse(message) ==
    IF Includes(message, "already purchased") THEN PurchaseConflict
    ELSE IF Includes(message, "Invalid item ID") THEN ItemNotFound
    ELSE FailedToProcess(message)

\* Mutant of validatePurchase: a body without a password is not stopped by
\* the password check.
validatePurchaseMissingPasswordPasses(body) ==
    IF Falsy(env.REGISTRY_PASSWORD) THEN ServerConfigurationError
    ELSE IF ~Falsy(body.password) /\ body.password # env.REGISTRY_PASSWORD THEN InvalidPassword
    ELSE IF body.itemId = Undefined \/ body.itemId = Null THEN ItemIdRequired
    ELSE IF Falsy(body.purchaserName) \/ Trim(body.purchaserName.value) = ""
         THEN PurchaserNameRequired
    ELSE NoResponse

\* Mutant of validatePurchase: the check that REGISTRY_PASSWORD is set is
\* missing.
validatePurchaseNoConfigCheck(body) ==
    IF Falsy(body.password) \/ body.password # env.REGISTRY_PASSWORD THEN InvalidPassword
    ELSE IF body.itemId = Undefined \/ body.itemId = Null THEN ItemIdRequired
    ELSE IF Falsy(body.purchaserName) \/ Trim(body.purchaserName.value) = ""
         THEN PurchaserNameRequired
    ELSE NoResponse

\* Mutant of validatePurchase: the purchaser name is not trimmed before it
\* is compared with the empty string.
validatePurchaseNoTrim(body) ==
    IF Falsy(env.REGISTRY_PASSWORD) THEN ServerConfigurationError
    ELSE IF Falsy(body.password) \/ body.password # env.REGISTRY_PASSWORD THEN InvalidPassword
    ELSE IF body.itemId = Undefined \/ body.itemId = Null THEN ItemIdRequired
    ELSE IF Falsy(body.purchaserName) \/ body.purchaserName.value = ""
         THEN PurchaserNameRequired
    ELSE NoResponse

\* handlePurchase up to its first await: the configuration check, the
\* password check and the two field checks, in this order.  NoResponse when
\* the request passes them all.
validatePurchase(body) ==
    IF Falsy(env.REGISTRY_PASSWORD) THEN ServerConfigurationError
    ELSE IF Falsy(body.password) \/ body.password # env.REGISTRY_PASSWORD THEN InvalidPassword
    ELSE IF body.itemId = Undefined \/ body.itemId = Null THEN ItemIdRequired
    ELSE IF Falsy(body.purchaserName) \/ Trim(body.purchaserName.value) = ""
         THEN PurchaserNameRequired
    ELSE NoResponse

\* What eccrypto.encrypt returns, serialised: JSON of iv, ephemPublicKey,
\* ciphertext and mac.  The iv and the ephemeral key are drawn afresh for
\* every call; `entropy` stands for the draw.
EciesJson(keyHex, name, entropy) ==
    "{iv:" \o ToString(entropy) \o ",ciphertext:ecies(" \o keyHex \o "," \o name \o ")}"

EncryptionFailed == "Failed to encrypt purchaser name"

\* encryptPurchaserName: the key is stripped of 0x and given the 04 prefix
\* if it lacks it; whatever fails inside the try (no key to take a
\* substring of, a key that is no curve point) is rethrown with one message.
encryptPurchaserName(publicKey, name, entropy) ==
    IF publicKey.type # "string" THEN [ok |-> FALSE, message |-> EncryptionFailed]
    ELSE LET stripped == IF StartsWith(publicKey.value, "0x")
                         THEN Slice(publicKey.value, 2) ELSE publicKey.value
             cleanPublicKey == IF StartsWith(stripped, "04") THEN stripped
                               ELSE "04" \o stripped
         IN  IF cleanPublicKey # OwnerKeyHex
             THEN [ok |-> FALSE, message |-> EncryptionFailed]
             ELSE [ok |-> TRUE, value |-> EciesJson(cleanPublicKey, name, entropy)]

\* The error of a read or a simulated call the node answers with a revert:
\* the client puts the revert reason, when there is one, into the message.
ExecutionReverted(reason) == "execution reverted: " \o reason

\* The error of reading items(i) past the end: the getter reverts without data.
MissingRevertData == "missing revert data"

\* The error of tx.wait() for a transaction mined with status 0: a receipt
\* carries the status only, not the revert reason.
TransactionReverted == "transaction execution reverted"

\* The errors a call to the store through the RPC provider rejects with,
\* by the fields the relayer looks at.
StoreError(code, message, data, reason) ==
    [code |-> code, message |-> message, data |-> data, reason |-> reason]

\* The read of an index past the end of items: the getter reverts without
\* data.
EndOfRange == StoreError("CALL_EXCEPTION", MissingRevertData, Null, Null)

\* The provider refuses the call because too many were made.
RateLimited == StoreError("SERVER_ERROR", "rate limit exceeded", Undefined, Undefined)

\* The store rejects the call by a require, with its reason.
Rejected ==
    StoreError("CALL_EXCEPTION", ExecutionReverted(AlreadyPurchased),
               Str("0x08c379a0"), Str(AlreadyPurchased))

\* The answer of the store cannot be decoded.
Undecodable == StoreError("BAD_DATA", "could not decode result data", Undefined, Undefined)

\* retryWithBackoff: the number of attempts (its default maxRetries) and the
\* unit of its delays, in ms.
MaxRetries == 3

BaseDelayMs == 1000

\* The errors retryWithBackoff takes for a rate limit.
isRateLimit(error) ==
    \/ error.code = "CALL_EXCEPTION"
    \/ Includes(error.message, "rate limit")
    \/ Includes(error.message, "429")

\* Mutant of backoffDelay: the delays start at twice the unit.
backoffDelayFromTwo(attempt) == (2 ^ (attempt + 1)) * BaseDelayMs

\* The wait after the failed attempt number `attempt` (counted from 0).
backoffDelay(attempt) == (2 ^ attempt) * BaseDelayMs

\* The errors the listing takes for the end of the items array.
isEndOfArray(error) ==
    \/ Includes(error.message, MissingRevertData)
    \/ (error.code = "CALL_EXCEPTION" /\ error.data = Null /\ error.reason = Null)

\* Mutant of shouldRetry: the last attempt is taken one attempt late.
shouldRetryOnceMore(error, attempt) ==
    isRateLimit(error) /\ attempt # MaxRetries

\* retryWithBackoff sleeps and tries again on a rate limit, unless the
\* attempt was the last one.
shouldRetry(error, attempt) ==
    isRateLimit(error) /\ attempt # MaxRetries - 1

\* No error.
NoError == StoreError("", "", Undefined, Undefined)

\* The listing probes the indices below this limit (1024 in handleGetItems,
\* scaled down with the store), and sleeps this long, in ms, after each item.
ListingCap == 2

ListingDelayMs == 50

\* purchasedAt as the listing reports it: a number, or null for 0.
purchasedAtOf(item) == IF item.purchasedAt # 0 THEN Num(item.purchasedAt) ELSE Null

\* Mutant of formatItem: the entry carries the encrypted name too.
formatItemWithName(index, item) ==
    [id |-> index, name |-> item.name, description |-> item.description,
     url |-> item.url, imageUrl |-> item.imageUrl, isPurchased |-> item.isPurchased,
     isDeleted |-> item.isDeleted, purchasedAt |-> purchasedAtOf(item),
     encryptedPurchaserName |-> item.encryptedPurchaserName]

\* An item as the listing reports it: with its index, without the
\* encrypted name.
formatItem(index, item) ==
    [id |-> index, name |-> item.name, description |-> item.description,
     url |-> item.url, imageUrl |-> item.imageUrl, isPurchased |-> item.isPurchased,
     isDeleted |-> item.isDeleted, purchasedAt |-> purchasedAtOf(item)]

\* Mutant of placeholder: the entry is not flagged deleted.
placeholderNotDeleted(index) ==
    [id |-> index, name |-> "[Error loading item " \o ToString(index) \o "]",
     description |-> "This item could not be loaded", url |-> "", imageUrl |-> "",
     isPurchased |-> FALSE, isDeleted |-> FALSE, purchasedAt |-> Null]

\* The entry that stands for an item that could not be read.
placeholder(index) ==
    [id |-> index, name |-> "[Error loading item " \o ToString(index) \o "]",
     description |-> "This item could not be loaded", url |-> "", imageUrl |-> "",
     isPurchased |-> FALSE, isDeleted |-> TRUE, purchasedAt |-> Null]

\* The answer of GET /items.
ItemsResponse(entries) ==
    [statusCode |-> 200, items |-> entries, count |-> Len(entries)]

\* What GET /items answers when the handler throws.
FailedToFetch(message) ==
    [statusCode |-> 500, error |-> "Failed to fetch items", message |-> message]

\* The relayer process as the module is loaded: provider, relayerWallet and
\* contract are declared and not assigned; no health check was answered.
Started ==
    [provider |-> Undefined, relayerWallet |-> Undefined, contract |-> Undefined,
     healthChecks |-> 0, health |-> NoResponse]

\* The endpoint the provider connects to (BASE_RPC_URL is not set).
DefaultRpcUrl == "https://mainnet.base.org"

\* The address of the wallet of a private key.
computeAddress(privateKey) == "0xaddressOf(" \o privateKey \o ")"

\* A wallet object.
Wallet(privateKey) == [type |-> "object", address |-> computeAddress(privateKey)]

\* A contract object bound to an address.
Contract(target) == [type |-> "object", target |-> target]

\* What the constructors of Wallet and Contract throw without a key and
\* without an address, and what a call on the unassigned contract throws.
InvalidPrivateKey == "invalid private key"

InvalidContractTarget == "invalid value for Contract target"

ContractUndefined == "Cannot read properties of undefined (reading 'items')"

\* initializeContract: nothing when the provider is assigned already;
\* otherwise the provider, the wallet and the contract are assigned in this
\* order, and a constructor that throws leaves what was assigned before it.
initializeContract(p) ==
    IF ~Falsy(p.provider) THEN [process |-> p, thrown |-> ""]
    ELSE LET connected == [p EXCEPT !.provider = Str(DefaultRpcUrl)]
         IN  IF Falsy(env.RELAYER_PRIVATE_KEY)
             THEN [process |-> connected, thrown |-> InvalidPrivateKey]
             ELSE LET signing == [connected EXCEPT !.relayerWallet =
                                                      Wallet(env.RELAYER_PRIVATE_KEY.value)]
                  IN  IF Falsy(env.CONTRACT_ADDRESS)
                      THEN [process |-> signing, thrown |-> InvalidContractTarget]
                      ELSE [process |-> [signing EXCEPT !.contract =
                                                          Contract(env.CONTRACT_ADDRESS.value)],
                            thrown |-> ""]

\* The answer of GET /health.
Healthy(relayerAddress, contractAddress) ==
    [statusCode |-> 200, status |-> "healthy", relayerAddress |-> relayerAddress,
     contractAddress |-> contractAddress]

NotInitialized == "not initialized"

\* A listing keeps its position (the read of items(index) in flight, the
\* sleep after an item, the sleep before a retry), the index and the attempt
\* (counted from 0) it is at, the entries collected, the error of the last
\* attempt that failed, the time it slept between the last two reads it
\* sent, the number of end-of-range answers it got, whether a read failed
\* with any other error, and its response.
NoListing ==
    [pc |-> "idle", index |-> 0, attempt |-> 0, entries |-> <<>>, error |-> NoError,
     gap |-> 0, signals |-> 0, faulted |-> FALSE, response |-> NoResponse]

\* A request slot nothing has arrived in, and the item no read has returned.
\* submitPurchaseNotification up to its first await: without an endpoint it
\* returns at once, otherwise the POST to the endpoint is on its way.
submitPurchaseNotification(endpoint) ==
    IF Falsy(endpoint) THEN "skipped" ELSE "pending"

\* The ways the POST to the endpoint ends: a 2xx answer resolves the
\* promise; any other answer, or a request error, rejects it, and the catch
\* of submitPurchaseNotification logs the failure and swallows it.
NotificationOutcomes == {"delivered", "failed"}

\* A request keeps its body, the item it read, the ciphertext, the outcome
\* of the gas estimate and of the mined transaction, the calls it made in
\* order, its response, whether a reset cleared its item since it came, and
\* how far its notification has got.
NoItem == RegistryItem("", "", "", "")

NoRequest ==
    [pc |-> "idle", body |-> [password |-> Undefined, itemId |-> Undefined,
                              purchaserName |-> Undefined],
     item |-> NoItem, encryptedName |-> "", estimate |-> "", receipt |-> "",
     calls |-> <<>>, response |-> NoResponse, resetSince |-> FALSE,
     notification |-> "none"]

\* ---------------------------------------------------------------- actions

\* No markAsPurchased transaction is in flight.
NoRace == [itemId |-> -1, pending |-> {}, receipts |-> {}]

\* The constructor: owner = msg.sender, no items.
Deployed ==
    /\ owner = "deployer"
    /\ items = <<>>
    /\ now = 1
    /\ addLog = <<>>
    /\ race = NoRace

\* The contract by itself: the relayer is configured and receives nothing.
Init ==
    /\ Deployed
    /\ env = Configured
    /\ proc = Started
    /\ reqs = [rq \in RequestIds |-> NoRequest]
    /\ list = NoListing

\* A mined transaction leaves the storage of its outcome and logs its events.
\* While a round of concurrent purchase calls is observed, the calls of the
\* round are the only transactions mined.
Apply(result) ==
    /\ race = NoRace
    /\ owner' = result.owner
    /\ items' = result.items
    /\ addLog' = addLog \o result.added
    /\ UNCHANGED <<now, race, relayer>>

AddItem ==
    \E sender \in Callers, t \in ItemTexts :
        /\ Len(items) < MaxItems
        /\ Apply(addItem(sender, t.name, t.description, t.url, t.imageUrl))

UpdateItem ==
    \E sender \in Callers, itemId \in ItemIds, t \in ItemTexts :
        Apply(updateItem(sender, itemId, t.name, t.description, t.url, t.imageUrl))

RemoveItem ==
    \E sender \in Callers, itemId \in ItemIds :
        Apply(removeItem(sender, itemId))

MarkAsPurchased ==
    \E sender \in Callers, itemId \in ItemIds, enc \in EncNames :
        Apply(markAsPurchased(sender, itemId, enc))

ResetItem ==
    \E sender \in Callers, itemId \in ItemIds :
        Apply(resetItem(sender, itemId))

TransferOwnership ==
    \E sender \in Callers, newOwner \in Callers \cup {ZeroAddress} :
        Apply(transferOwnership(sender, newOwner))

\* The chain mines a new block; its timestamp is later than the last one's.
NewBlock ==
    /\ now < 1 + MaxBlocks
    /\ now' = now + 1
    /\ UNCHANGED <<owner, items, addLog, race, relayer>>

\* Any transaction of the contract, or a new block.
Next ==
    \/ AddItem
    \/ UpdateItem
    \/ RemoveItem
    \/ MarkAsPurchased
    \/ ResetItem
    \/ TransferOwnership
    \/ NewBlock

Spec == Init /\ [][Next]_vars

\* ------------------------------------------- concurrent purchase calls

\* A markAsPurchased transaction a caller has signed and sent: one of the
\* deployer, or one of several of a guest.
PurchaseCalls ==
    { call \in [sender : Callers, encryptedPurchaserName : NonEmptyNames] :
        call.sender = "deployer" => call.encryptedPurchaserName = "enc" }

\* Two or more callers send markAsPurchased for the same item, which is
\* neither deleted nor purchased; the transactions wait to be mined.
StartRace ==
    \E itemId \in ItemIds, calls \in SUBSET PurchaseCalls :
        /\ race = NoRace
        /\ Cardinality(calls) >= 2
        /\ Cardinality(calls) <= MaxRace
        /\ validItemId(itemId)
        /\ ~ItemAt(itemId).isDeleted
        /\ ~ItemAt(itemId).isPurchased
        /\ race' = [itemId |-> itemId, pending |-> calls, receipts |-> {}]
        /\ UNCHANGED <<owner, items, now, addLog, relayer>>

\* The chain mines one of the waiting transactions, whichever it picks: the
\* call runs atomically against the current storage and its receipt is kept.
MineRaceCall ==
    \E call \in race.pending :
        LET result == markAsPurchased(call.sender, race.itemId, call.encryptedPurchaserName)
        IN  /\ owner' = result.owner
            /\ items' = result.items
            /\ addLog' = addLog \o result.added
            /\ race' = [race EXCEPT !.pending = @ \ {call},
                                    !.receipts = @ \cup {[call |-> call, status |-> result.status]}]
            /\ UNCHANGED <<now, relayer>>

\* Every call of the round has its receipt: the round is over.
EndRace ==
    /\ race # NoRace
    /\ race.pending = {}
    /\ race' = NoRace
    /\ UNCHANGED <<owner, items, now, addLog, relayer>>

NextRace ==
    \/ Next
    \/ StartRace
    \/ MineRaceCall
    \/ EndRace

SpecRace == Init /\ [][NextRace]_vars

\* ------------------------------------------------ relayer: POST /purchase

\* The relayer is deployed, with whichever configuration, next to a freshly
\* deployed contract.
InitRelayer ==
    /\ Deployed
    /\ env \in Envs
    /\ proc = Started
    /\ reqs = [rq \in RequestIds |-> NoRequest]
    /\ list = NoListing

\* The item the owner lists.
ListedItem == CHOOSE t \in ItemTexts : t.name = "Item 1"

\* The hash of the transaction request rq sends.
TxHash(rq) == "0xtx" \o ToString(rq)

\* The handler returns `response`.
Return(rq, response) ==
    reqs' = [reqs EXCEPT ![rq].pc = "done", ![rq].response = response]

\* The handler throws, or an awaited call rejects: the catch block answers.
Catch(rq, message) == Return(rq, purchaseErrorResponse(message))

\* POST /purchase arrives (requests are numbered in the order of arrival).
\* The handler runs to its first await: it answers at once when a check
\* fails, and otherwise sends the read of items(itemId).
HandlePurchase(rq) ==
    \E body \in PurchaseBodies :
        /\ reqs[rq].pc = "idle"
        /\ \A earlier \in 1..(rq - 1) : reqs[earlier].pc # "idle"
        /\ LET rejection == validatePurchase(body)
               init == initializeContract(proc)
               thrown == IF init.thrown # "" THEN init.thrown
                         ELSE IF Falsy(init.process.contract) THEN ContractUndefined
                         ELSE ""
           IN  /\ proc' = IF rejection # NoResponse THEN proc ELSE init.process
               /\ reqs' = [reqs EXCEPT ![rq] =
                    IF rejection # NoResponse
                    THEN [@ EXCEPT !.pc = "done", !.body = body, !.response = rejection]
                    ELSE IF thrown # ""
                    THEN [@ EXCEPT !.pc = "done", !.body = body,
                                   !.response = purchaseErrorResponse(thrown)]
                    ELSE [@ EXCEPT !.pc = "items", !.body = body, !.calls = <<"items">>]]
        /\ UNCHANGED <<owner, items, now, addLog, race, env, list>>

\* Mutant of ItemRead: the handler does not look at isPurchased.
ItemReadNoPreCheck(rq) ==
    /\ reqs[rq].pc = "items"
    /\ LET itemId == reqs[rq].body.itemId.value
       IN  IF ~validItemId(itemId) THEN Catch(rq, MissingRevertData)
           ELSE reqs' = [reqs EXCEPT ![rq].pc = "encryptPurchaserName",
                                     ![rq].item = ItemAt(itemId),
                                     ![rq].calls = Append(@, "encryptPurchaserName")]
    /\ UNCHANGED <<owner, items, now, addLog, race, env, proc, list>>

\* contract.items(itemId) settles with the item as the store holds it now,
\* or rejects: because the provider limits the rate of calls, or because
\* the index is past the end.  The call is made once: a rejection goes to
\* the catch block.  A purchased item is answered 409; for any other the
\* encryption is started.
ItemRead(rq) ==
    /\ reqs[rq].pc = "items"
    /\ LET itemId == reqs[rq].body.itemId.value
       IN  \/ Catch(rq, RateLimited.message)
           \/ IF ~validItemId(itemId) THEN Catch(rq, MissingRevertData)
              ELSE IF ItemAt(itemId).isPurchased
                   THEN reqs' = [reqs EXCEPT ![rq].pc = "done",
                                             ![rq].item = ItemAt(itemId),
                                             ![rq].response = PreCheckConflict(itemId)]
              ELSE reqs' = [reqs EXCEPT ![rq].pc = "encryptPurchaserName",
                                        ![rq].item = ItemAt(itemId),
                                        ![rq].calls = Append(@, "encryptPurchaserName")]
    /\ UNCHANGED <<owner, items, now, addLog, race, env, proc, list>>

\* Mutant of NameEncrypted: when the encryption fails the handler goes on
\* with the name as it is.
NameEncryptedFailOpen(rq) ==
    /\ reqs[rq].pc = "encryptPurchaserName"
    /\ LET name == Trim(reqs[rq].body.purchaserName.value)
           encrypted == encryptPurchaserName(env.OWNER_PUBLIC_KEY, name, rq)
       IN  reqs' = [reqs EXCEPT ![rq].pc = "markAsPurchased",
                                ![rq].encryptedName =
                                    IF encrypted.ok THEN encrypted.value ELSE name,
                                ![rq].calls = Append(@, "markAsPurchased")]
    /\ UNCHANGED <<owner, items, now, addLog, race, env, proc, list>>

\* Mutant of NameEncrypted: the handler encrypts the name and then submits
\* the name itself.
NameEncryptedSubmitsPlaintext(rq) ==
    /\ reqs[rq].pc = "encryptPurchaserName"
    /\ LET name == Trim(reqs[rq].body.purchaserName.value)
           encrypted == encryptPurchaserName(env.OWNER_PUBLIC_KEY, name, rq)
       IN  IF encrypted.ok
           THEN reqs' = [reqs EXCEPT ![rq].pc = "markAsPurchased",
                                     ![rq].encryptedName = name,
                                     ![rq].calls = Append(@, "markAsPurchased")]
           ELSE Catch(rq, encrypted.message)
    /\ UNCHANGED <<owner, items, now, addLog, race, env, proc, list>>

\* encryptPurchaserName settles: with the ciphertext, and the handler calls
\* contract.markAsPurchased, or with its error.
NameEncrypted(rq) ==
    /\ reqs[rq].pc = "encryptPurchaserName"
    /\ LET encrypted == encryptPurchaserName(env.OWNER_PUBLIC_KEY,
                                             Trim(reqs[rq].body.purchaserName.value), rq)
       IN  IF encrypted.ok
           THEN reqs' = [reqs EXCEPT ![rq].pc = "markAsPurchased",
                                     ![rq].encryptedName = encrypted.value,
                                     ![rq].calls = Append(@, "markAsPurchased")]
           ELSE Catch(rq, encrypted.message)
    /\ UNCHANGED <<owner, items, now, addLog, race, env, proc, list>>

\* contract.markAsPurchased settles.  The provider may refuse the call for
\* the rate of calls.  Otherwise the client first has the node run the call
\* against the current storage to estimate its gas: a call that would
\* revert is rejected there, with the revert reason in the message, and
\* nothing is sent; otherwise the signed transaction is sent and waits to
\* be mined.  The call is made once: a rejection goes to the catch block.
TransactionSent(rq) ==
    /\ reqs[rq].pc = "markAsPurchased"
    /\ LET estimate == markAsPurchased(RelayerWallet, reqs[rq].body.itemId.value,
                                       reqs[rq].encryptedName)
       IN  \/ reqs' = [reqs EXCEPT ![rq].pc = "done",
                                   ![rq].estimate = RateLimited.message,
                                   ![rq].response =
                                       purchaseErrorResponse(RateLimited.message)]
           \/ IF estimate.status = Ok
              THEN reqs' = [reqs EXCEPT ![rq].pc = "pending", ![rq].estimate = Ok]
              ELSE reqs' = [reqs EXCEPT ![rq].pc = "done",
                                        ![rq].estimate = estimate.status,
                                        ![rq].response =
                                            purchaseErrorResponse(ExecutionReverted(estimate.status))]
    /\ UNCHANGED <<owner, items, now, addLog, race, env, proc, list>>

\* The chain mines the transaction of rq: markAsPurchased runs against the
\* storage of that moment, and the receipt records whether it reverted.
TransactionMined(rq) ==
    /\ reqs[rq].pc = "pending"
    /\ LET result == markAsPurchased(RelayerWallet, reqs[rq].body.itemId.value,
                                     reqs[rq].encryptedName)
       IN  /\ owner' = result.owner
           /\ items' = result.items
           /\ addLog' = addLog \o result.added
           /\ reqs' = [reqs EXCEPT ![rq].pc = "wait", ![rq].receipt = result.status]
    /\ UNCHANGED <<now, race, env, proc, list>>

\* Mutant of TransactionConfirmed: the handler answers 200 whatever the
\* receipt says.
TransactionConfirmedIgnoresReceipt(rq) ==
    /\ reqs[rq].pc = "wait"
    /\ reqs' = [reqs EXCEPT ![rq].pc = "done",
                            ![rq].calls = Append(@, "submitPurchaseNotification"),
                            ![rq].notification =
                                submitPurchaseNotification(env.FORMSPREE_ENDPOINT),
                            ![rq].response =
                                PurchaseSucceeded(reqs[rq].body.itemId.value, TxHash(rq))]
    /\ UNCHANGED <<owner, items, now, addLog, race, env, proc, list>>

\* tx.wait() settles: with the receipt of a successful transaction, and the
\* handler starts the notification and, without awaiting it, answers 200;
\* or with the error of a reverted one.
TransactionConfirmed(rq) ==
    /\ reqs[rq].pc = "wait"
    /\ IF reqs[rq].receipt = Ok
       THEN reqs' = [reqs EXCEPT ![rq].pc = "done",
                                 ![rq].calls = Append(@, "submitPurchaseNotification"),
                                 ![rq].notification =
                                     submitPurchaseNotification(env.FORMSPREE_ENDPOINT),
                                 ![rq].response =
                                     PurchaseSucceeded(reqs[rq].body.itemId.value, TxHash(rq))]
       ELSE Catch(rq, TransactionReverted)
    /\ UNCHANGED <<owner, items, now, addLog, race, env, proc, list>>

\* Mutant of NotificationSettles: a notification that fails replaces the
\* answer of the purchase with an error.
NotificationSettlesFailsPurchase(rq) ==
    /\ reqs[rq].notification = "pending"
    /\ \E outcome \in NotificationOutcomes :
          reqs' = [reqs EXCEPT ![rq].notification = outcome,
                               ![rq].response =
                                   IF outcome = "failed"
                                   THEN FailedToProcess("notification failed")
                                   ELSE @]
    /\ UNCHANGED <<owner, items, now, addLog, race, env, proc, list>>

\* The POST of the notification of rq ends, after the handler has answered:
\* nothing but the log depends on how.  (A notification that never ends
\* stays pending.)
NotificationSettles(rq) ==
    /\ reqs[rq].notification = "pending"
    /\ \E outcome \in NotificationOutcomes :
          reqs' = [reqs EXCEPT ![rq].notification = outcome]
    /\ UNCHANGED <<owner, items, now, addLog, race, env, proc, list>>

\* Meanwhile the owner administers the registry: adds the listed item, and
\* removes or resets an item the requests name (what becomes of the other
\* items is out of the requests' reach).
OwnerAddsItem ==
    /\ Len(items) < MaxItems
    /\ Apply(addItem(owner, ListedItem.name, ListedItem.description,
                     ListedItem.url, ListedItem.imageUrl))

OwnerRemovesItem ==
    \E itemId \in RequestedItemIds : Apply(removeItem(owner, itemId))

\* A reset that clears a purchase is remembered by every request that had
\* arrived for that item.
OwnerResetsItem ==
    \E itemId \in RequestedItemIds :
        LET result == resetItem(owner, itemId)
            cleared == result.status = Ok /\ ItemAt(itemId).isPurchased
        IN  /\ owner' = result.owner
            /\ items' = result.items
            /\ addLog' = addLog \o result.added
            /\ reqs' = [rq \in RequestIds |->
                          IF cleared /\ reqs[rq].pc # "idle"
                                     /\ reqs[rq].body.itemId = Num(itemId)
                          THEN [reqs[rq] EXCEPT !.resetSince = TRUE]
                          ELSE reqs[rq]]
            /\ UNCHANGED <<now, race, env, proc, list>>

NextRelayer ==
    \/ \E rq \in RequestIds : HandlePurchase(rq)
    \/ \E rq \in RequestIds : ItemRead(rq)
    \/ \E rq \in RequestIds : NameEncrypted(rq)
    \/ \E rq \in RequestIds : TransactionSent(rq)
    \/ \E rq \in RequestIds : TransactionMined(rq)
    \/ \E rq \in RequestIds : TransactionConfirmed(rq)
    \/ \E rq \in RequestIds : NotificationSettles(rq)
    \/ OwnerAddsItem
    \/ OwnerRemovesItem
    \/ OwnerResetsItem

SpecRelayer == InitRelayer /\ [][NextRelayer]_vars

\* --------------------------------------------------- relayer: GET /items

\* The store the listing reads holds at most one item more than the listing
\* probes.
ListedStoreSizes == 0..(ListingCap + 1)

\* The outcome of one attempt to read items(index): the item, or an error.
Found(item) == [ok |-> TRUE, item |-> item, error |-> NoError]

Failed(error) == [ok |-> FALSE, item |-> NoItem, error |-> error]

\* What the provider may answer to the read of items(index): the item the
\* store holds there, or the end of range when it holds none; or, whichever
\* the index, a refusal for the rate of calls or an answer that cannot be
\* decoded.
ReadAnswers(index) ==
    {Failed(RateLimited), Failed(Undecodable)}
        \cup (IF validItemId(index) THEN {Found(ItemAt(index))} ELSE {Failed(EndOfRange)})

\* The handler answers with what it has collected.
Respond(l) ==
    [l EXCEPT !.pc = "done", !.response = ItemsResponse(l.entries)]

\* The for loop goes to the next index, `slept` ms after the last read was
\* sent: it sends the read of that index, or ends at the limit.
NextIndex(l, slept) ==
    IF l.index + 1 < ListingCap
    THEN [l EXCEPT !.pc = "read", !.index = l.index + 1, !.attempt = 0, !.gap = slept]
    ELSE Respond(l)

\* GET /items arrives: the handler initializes the connection, binds a
\* contract of its own to the provider and sends the read of index 0
\* through retryWithBackoff; it answers 500 when a constructor throws.
HandleGetItems ==
    /\ list.pc = "idle"
    /\ LET init == initializeContract(proc)
           thrown == IF init.thrown # "" THEN init.thrown
                     ELSE IF Falsy(env.CONTRACT_ADDRESS) THEN InvalidContractTarget
                     ELSE ""
       IN  /\ proc' = init.process
           /\ list' = IF thrown # ""
                      THEN [list EXCEPT !.pc = "done", !.response = FailedToFetch(thrown)]
                      ELSE [list EXCEPT !.pc = "read"]
    /\ UNCHANGED <<owner, items, now, addLog, race, env, reqs>>

\* Mutant of Settled: a deleted item is left out of the listing.
SettledSkipsDeleted(l, answer) ==
    LET heard == [l EXCEPT !.error = answer.error,
                           !.signals = IF answer.error = EndOfRange
                                       THEN @ + 1 ELSE @,
                           !.faulted = @ \/ answer.error \notin {NoError, EndOfRange}]
    IN  IF answer.ok
        THEN [heard EXCEPT !.pc = "sleep",
                           !.entries = IF answer.item.isDeleted THEN @
                                       ELSE Append(@, formatItem(l.index, answer.item))]
        ELSE IF shouldRetry(answer.error, l.attempt)
        THEN [heard EXCEPT !.pc = "backoff"]
        ELSE IF isEndOfArray(answer.error)
        THEN Respond(heard)
        ELSE NextIndex([heard EXCEPT !.entries = Append(@, placeholder(l.index))], 0)

\* The listing after the read in flight settled with `answer`.  An item
\* is pushed, formatted, and the handler sleeps for the listing delay.  An
\* error that retryWithBackoff retries sends it to sleep for the backoff
\* delay; any other it throws to the loop, which ends the listing at the end
\* of the array and otherwise pushes a placeholder and goes on at once.
Settled(l, answer) ==
    LET heard == [l EXCEPT !.error = answer.error,
                           !.signals = IF answer.error = EndOfRange
                                       THEN @ + 1 ELSE @,
                           !.faulted = @ \/ answer.error \notin {NoError, EndOfRange}]
    IN  IF answer.ok
        THEN [heard EXCEPT !.pc = "sleep",
                           !.entries = Append(@, formatItem(l.index, answer.item))]
        ELSE IF shouldRetry(answer.error, l.attempt)
        THEN [heard EXCEPT !.pc = "backoff"]
        ELSE IF isEndOfArray(answer.error)
        THEN Respond(heard)
        ELSE NextIndex([heard EXCEPT !.entries = Append(@, placeholder(l.index))], 0)

\* The read in flight settles.
ReadSettles ==
    /\ list.pc = "read"
    /\ \E answer \in ReadAnswers(list.index) : list' = Settled(list, answer)
    /\ UNCHANGED <<owner, items, now, addLog, race, env, proc, reqs>>

\* sleep(50) after a pushed item ends.
SleepEnds ==
    /\ list.pc = "sleep"
    /\ list' = NextIndex(list, ListingDelayMs)
    /\ UNCHANGED <<owner, items, now, addLog, race, env, proc, reqs>>

\* The sleep of retryWithBackoff ends: the read is sent again.
BackoffEnds ==
    /\ list.pc = "backoff"
    /\ list' = [list EXCEPT !.pc = "read", !.attempt = @ + 1,
                            !.gap = backoffDelay(list.attempt)]
    /\ UNCHANGED <<owner, items, now, addLog, race, env, proc, reqs>>

\* Before the listing is asked for, the registry is filled: the owner adds
\* items and removes some, guests purchase some.
StoreAddsItem ==
    /\ list.pc = "idle"
    /\ Len(items) + 1 \in ListedStoreSizes
    /\ \E t \in ItemTexts : Apply(addItem(owner, t.name, t.description, t.url, t.imageUrl))

StoreRemovesItem ==
    /\ list.pc = "idle"
    /\ \E itemId \in ListedStoreSizes : Apply(removeItem(owner, itemId))

StorePurchasesItem ==
    /\ list.pc = "idle"
    /\ \E itemId \in ListedStoreSizes : Apply(markAsPurchased("guest", itemId, "enc"))

ListingSteps == ReadSettles \/ SleepEnds \/ BackoffEnds

NextListing ==
    \/ StoreAddsItem
    \/ StoreRemovesItem
    \/ StorePurchasesItem
    \/ HandleGetItems
    \/ ReadSettles
    \/ SleepEnds
    \/ BackoffEnds

SpecListing == Init /\ [][NextListing]_vars

\* The provider answers every read, in time or with an error, and the timers
\* of the sleeps fire.
SpecListingFair == SpecListing /\ WF_vars(ListingSteps)

\* ------------------------------------ relayer: GET /items of a live store

\* The item the owner and the guests work on while the registry is listed.
LiveItemIds == {0}

\* The store's operations, mined at any moment of the listing.
LiveAddsItem ==
    /\ Len(items) + 1 \in ListedStoreSizes
    /\ Apply(addItem(owner, ListedItem.name, ListedItem.description,
                     ListedItem.url, ListedItem.imageUrl))

LiveUpdatesItem ==
    \E itemId \in LiveItemIds, t \in ItemTexts :
        Apply(updateItem(owner, itemId, t.name, t.description, t.url, t.imageUrl))

LiveRemovesItem ==
    \E itemId \in LiveItemIds : Apply(removeItem(owner, itemId))

LivePurchasesItem ==
    \E itemId \in LiveItemIds : Apply(markAsPurchased("guest", itemId, "enc"))

LiveResetsItem ==
    \E itemId \in LiveItemIds : Apply(resetItem(owner, itemId))

NextListingLive ==
    \/ LiveAddsItem
    \/ LiveUpdatesItem
    \/ LiveRemovesItem
    \/ LivePurchasesItem
    \/ LiveResetsItem
    \/ HandleGetItems
    \/ ReadSettles
    \/ SleepEnds
    \/ BackoffEnds

SpecListingLive == Init /\ [][NextListingLive]_vars

\* -------------------------------------------------- relayer: GET /health

\* The number of health checks followed.
MaxHealthChecks == 2

\* The configurations of the connection: complete, without the wallet's key,
\* without the address of the contract, without both.
HealthEnvs ==
    { Configured,
      [Configured EXCEPT !.RELAYER_PRIVATE_KEY = Undefined],
      [Configured EXCEPT !.CONTRACT_ADDRESS = Undefined],
      [Configured EXCEPT !.RELAYER_PRIVATE_KEY = Undefined, !.CONTRACT_ADDRESS = Undefined] }

InitHealth ==
    /\ Deployed
    /\ env \in HealthEnvs
    /\ proc = Started
    /\ reqs = [rq \in RequestIds |-> NoRequest]
    /\ list = NoListing

\* Mutant of HandleHealth: the handler initializes the connection before it
\* answers, and a constructor that throws is answered by the handler's catch.
HandleHealthInitializes ==
    /\ proc.healthChecks < MaxHealthChecks
    /\ LET init == initializeContract(proc)
       IN  proc' = [init.process EXCEPT
                      !.healthChecks = @ + 1,
                      !.health =
                          IF init.thrown # ""
                          THEN [statusCode |-> 500, error |-> "Internal server error",
                                message |-> init.thrown]
                          ELSE Healthy(IF ~Falsy(init.process.relayerWallet)
                                       THEN Str(init.process.relayerWallet.address)
                                       ELSE Str(NotInitialized),
                                       env.CONTRACT_ADDRESS)]
    /\ UNCHANGED <<owner, items, now, addLog, race, env, reqs, list>>

\* GET /health arrives and is answered: with the address of the wallet when
\* one is assigned, and with the configured address of the contract.
HandleHealth ==
    /\ proc.healthChecks < MaxHealthChecks
    /\ proc' = [proc EXCEPT
                  !.healthChecks = @ + 1,
                  !.health = Healthy(IF ~Falsy(proc.relayerWallet)
                                     THEN Str(proc.relayerWallet.address)
                                     ELSE Str(NotInitialized),
                                     env.CONTRACT_ADDRESS)]
    /\ UNCHANGED <<owner, items, now, addLog, race, env, reqs, list>>

\* Health checks arrive while the registry is filled and listed.
NextHealth ==
    \/ HandleHealth
    \/ StoreAddsItem
    \/ HandleGetItems
    \/ ReadSettles
    \/ SleepEnds
    \/ BackoffEnds

SpecHealth == InitHealth /\ [][NextHealth]_vars

\* -------------------------------------------------------------- C1

RaceWon == {r \in race.receipts : r.status = Ok}

\* C1: when several markAsPurchased calls with a non-empty name are in
\* flight for one unpurchased, non-deleted item, then in whatever order they
\* are mined exactly one succeeds, every other one reverts with "Item
\* already purchased", and the stored encryptedPurchaserName is the winner's.
C1_PurchaseExactlyOnce ==
    race.receipts # {} =>
        /\ Cardinality(RaceWon) = 1
        /\ \A r \in race.receipts \ RaceWon : r.status = AlreadyPurchased
        /\ \A r \in RaceWon :
            /\ ItemAt(race.itemId).isPurchased
            /\ ItemAt(race.itemId).encryptedPurchaserName = r.call.encryptedPurchaserName

\* A race of at least two calls has been mined to its end, one call having lost.
C1_Witness ==
    /\ race.pending = {}
    /\ Cardinality(race.receipts) >= 2
    /\ \E r \in race.receipts : r.status = AlreadyPurchased

\* -------------------------------------------------------------- C2

\* What addItem does to the array: the old items stay where they are and the
\* new one is stored at, and announced with, the first free index.
AddAssignsNextIndex ==
    \A sender \in Callers, t \in ItemTexts :
        LET r == addItem(sender, t.name, t.description, t.url, t.imageUrl)
        IN  r.status = Ok =>
                /\ Len(r.items) = Len(items) + 1
                /\ SubSeq(r.items, 1, Len(items)) = items
                /\ r.items[Len(items) + 1] = RegistryItem(t.name, t.description, t.url, t.imageUrl)
                /\ r.added = <<Len(items)>>

\* What removeItem does to the array: same length, and every item, the
\* removed one too, is the item that was at that index before.
RemoveKeepsIndices ==
    \A sender \in Callers, itemId \in ItemIds :
        LET r == removeItem(sender, itemId)
        IN  /\ Len(r.items) = Len(items)
            /\ \A j \in 1..Len(items) :
                \/ r.items[j] = items[j]
                \/ /\ j = itemId + 1
                   /\ r.items[j] = [items[j] EXCEPT !.isDeleted = TRUE]

\* C2: index stability.  The k-th successful addItem stores its item at
\* index k-1 (addLog lists the assigned indices, deleted items counted); no
\* step shortens the array or changes more than one slot; removeItem keeps
\* every item, the removed one included, at its index.
C2_IndexStability ==
    /\ [](/\ addLog = [k \in 1..Len(items) |-> k - 1]
          /\ AddAssignsNextIndex
          /\ RemoveKeepsIndices)
    /\ [][/\ Len(items') >= Len(items)
          /\ Cardinality({j \in 1..Len(items) : items'[j] # items[j]}) <= 1]_vars

\* Two items were added, the first was removed, the second is still at index 1.
C2_Witness ==
    /\ addLog = <<0, 1>>
    /\ Len(items) = 2
    /\ items[1].isDeleted
    /\ ~items[2].isDeleted
    /\ items[1].name # items[2].name

\* -------------------------------------------------------------- C3

\* The ids of the items whose isDeleted flag is set.
DeletedIds == {itemId \in 0..(Len(items) - 1) : ItemAt(itemId).isDeleted}

\* isDeleted, once set, is set in the next state too.
DeletedStaysDeleted ==
    \A j \in 1..Len(items) :
        items[j].isDeleted => j <= Len(items') /\ items'[j].isDeleted

\* The claim as stated: on a deleted id every updateItem, markAsPurchased
\* and resetItem fails with the deleted-item message and every removeItem
\* with "Item already deleted", whoever the caller is.
C3_AsStated ==
    /\ [](\A itemId \in DeletedIds :
            /\ \A sender \in Callers, t \in ItemTexts :
                updateItem(sender, itemId, t.name, t.description, t.url, t.imageUrl).status
                    = UpdateDeleted
            /\ \A sender \in Callers, enc \in EncNames :
                markAsPurchased(sender, itemId, enc).status = ItemRemovedMsg
            /\ \A sender \in Callers : resetItem(sender, itemId).status = ResetDeleted
            /\ \A sender \in Callers : removeItem(sender, itemId).status = AlreadyDeleted)
    /\ [][DeletedStaysDeleted]_vars

\* C3 (amended): once isDeleted is true for an item it stays true whatever
\* follows, and every later mutating call on that id fails and changes
\* nothing: markAsPurchased with "Item has been removed" for every caller;
\* the owner's updateItem and resetItem with the deleted-item message and
\* the owner's removeItem with "Item already deleted"; the same calls by
\* anyone else with "Only owner can call this function".
C3_DeleteMonotonicity ==
    /\ [](\A itemId \in DeletedIds :
            /\ \A sender \in Callers, t \in ItemTexts :
                LET r == updateItem(sender, itemId, t.name, t.description, t.url, t.imageUrl)
                IN  /\ r.status = IF sender = owner THEN UpdateDeleted ELSE NotOwner
                    /\ r.items = items /\ r.owner = owner
            /\ \A sender \in Callers, enc \in EncNames :
                LET r == markAsPurchased(sender, itemId, enc)
                IN  /\ r.status = ItemRemovedMsg
                    /\ r.items = items /\ r.owner = owner
            /\ \A sender \in Callers :
                LET r == resetItem(sender, itemId)
                IN  /\ r.status = IF sender = owner THEN ResetDeleted ELSE NotOwner
                    /\ r.items = items /\ r.owner = owner
            /\ \A sender \in Callers :
                LET r == removeItem(sender, itemId)
                IN  /\ r.status = IF sender = owner THEN AlreadyDeleted ELSE NotOwner
                    /\ r.items = items /\ r.owner = owner)
    /\ [][DeletedStaysDeleted]_vars

\* An item was purchased and then removed, and the ownership has moved on:
\* every call the claim speaks of now meets a deleted item.
C3_Witness ==
    /\ owner = "guest"
    /\ \E itemId \in DeletedIds : ItemAt(itemId).isPurchased
    /\ \E itemId \in 0..(Len(items) - 1) : itemId \notin DeletedIds

\* -------------------------------------------------------------- C4

\* The full sequence rebuilt from getAllItems() and the deleted items: walk the
\* indices, taking a deleted item from its slot and any other from the view.
Reassembled ==
    LET all == getAllItems
        merge[j \in 0..Len(items)] ==
            IF j = 0 THEN [seq |-> <<>>, used |-> 0]
            ELSE IF items[j].isDeleted
                 THEN [seq |-> Append(merge[j - 1].seq, items[j]), used |-> merge[j - 1].used]
                 ELSE IF merge[j - 1].used < Len(all)
                      THEN [seq |-> Append(merge[j - 1].seq, all[merge[j - 1].used + 1]),
                            used |-> merge[j - 1].used + 1]
                      ELSE merge[j - 1]
    IN  merge[Len(items)]

\* C4: view consistency.  getItemCount() is the length of getAllItems();
\* getAllItems() and the deleted items together are exactly the underlying
\* sequence; no item is in both getAvailableItems() and getPurchasedItems().
C4_ViewConsistency ==
    /\ getItemCount = Len(getAllItems)
    /\ Len(getAllItems) + Cardinality(DeletedIds) = Len(items)
    /\ Reassembled.seq = items
    /\ Reassembled.used = Len(getAllItems)
    /\ \A a \in 1..Len(getAvailableItems), p \in 1..Len(getPurchasedItems) :
        getAvailableItems[a] # getPurchasedItems[p]

\* A deleted item ahead of a purchased one: the count and the views differ
\* from the underlying sequence.
C4_Witness ==
    /\ Len(items) = 2
    /\ items[1].isDeleted
    /\ ~items[2].isDeleted /\ items[2].isPurchased
    /\ getItemCount = 1
    /\ Len(getPurchasedItems) = 1

\* -------------------------------------------------------------- C5

\* C5: purchase-data invariant.  For every item, deleted or not, isPurchased
\* holds exactly when encryptedPurchaserName is non-empty and purchasedAt > 0,
\* and an unpurchased item has an empty name and purchasedAt = 0.
C5_PurchaseData ==
    \A j \in 1..Len(items) :
        /\ items[j].isPurchased <=>
              (items[j].encryptedPurchaserName # "" /\ items[j].purchasedAt > 0)
        /\ ~items[j].isPurchased =>
              (items[j].encryptedPurchaserName = "" /\ items[j].purchasedAt = 0)

\* A purchased item that was then deleted, beside an unpurchased one.
C5_Witness ==
    /\ \E j \in 1..Len(items) :
        items[j].isDeleted /\ items[j].isPurchased /\ items[j].purchasedAt > 1
    /\ \E j \in 1..Len(items) : ~items[j].isPurchased /\ ~items[j].isDeleted

\* -------------------------------------------------------------- C6

\* The lifecycle state of an item.
Kind(item) ==
    IF item.isDeleted THEN "Deleted"
    ELSE IF item.isPurchased THEN "Purchased"
    ELSE "Available"

\* The lifecycle changes a call's outcome r makes to the items there were.
KindChanges(r) ==
    { <<Kind(items[j]), Kind(r.items[j])>> :
        j \in {k \in 1..Len(items) : k <= Len(r.items) /\ Kind(r.items[k]) # Kind(items[k])} }

\* A Purchased item that stays Purchased keeps its purchaser and time.
KeepsPurchaser(r) ==
    \A j \in 1..Len(items) :
        (Kind(items[j]) = "Purchased" /\ Kind(r.items[j]) = "Purchased") =>
            /\ r.items[j].encryptedPurchaserName = items[j].encryptedPurchaserName
            /\ r.items[j].purchasedAt = items[j].purchasedAt

\* In every state, what each operation can do to the lifecycle of an item.
OperationsFollowLifecycle ==
    /\ \A sender \in Callers, t \in ItemTexts :
        LET r == addItem(sender, t.name, t.description, t.url, t.imageUrl)
        IN  KindChanges(r) = {} /\ KeepsPurchaser(r)
    /\ \A sender \in Callers, itemId \in ItemIds, t \in ItemTexts :
        LET r == updateItem(sender, itemId, t.name, t.description, t.url, t.imageUrl)
        IN  KindChanges(r) = {} /\ KeepsPurchaser(r)
    /\ \A sender \in Callers, newOwner \in Callers \cup {ZeroAddress} :
        LET r == transferOwnership(sender, newOwner)
        IN  KindChanges(r) = {} /\ KeepsPurchaser(r)
    /\ \A sender \in Callers, itemId \in ItemIds, enc \in EncNames :
        LET r == markAsPurchased(sender, itemId, enc)
        IN  KindChanges(r) \subseteq {<<"Available", "Purchased">>} /\ KeepsPurchaser(r)
    /\ \A sender \in Callers, itemId \in ItemIds :
        LET r == resetItem(sender, itemId)
        IN  KindChanges(r) \subseteq {<<"Purchased", "Available">>} /\ KeepsPurchaser(r)
    /\ \A sender \in Callers, itemId \in ItemIds :
        LET r == removeItem(sender, itemId)
        IN  /\ KindChanges(r) \subseteq {<<"Available", "Deleted">>, <<"Purchased", "Deleted">>}
            /\ KeepsPurchaser(r)

\* In every state each arrow of the lifecycle can be taken, so the
\* Available -> Purchased -> Available cycle can be repeated without end.
LifecycleArrowsOpen ==
    \A itemId \in 0..(Len(items) - 1) :
        /\ Kind(ItemAt(itemId)) = "Available" =>
            \A sender \in Callers, enc \in NonEmptyNames :
                Kind(markAsPurchased(sender, itemId, enc).items[itemId + 1]) = "Purchased"
        /\ Kind(ItemAt(itemId)) = "Purchased" =>
            Kind(resetItem(owner, itemId).items[itemId + 1]) = "Available"
        /\ Kind(ItemAt(itemId)) # "Deleted" =>
            Kind(removeItem(owner, itemId).items[itemId + 1]) = "Deleted"

\* In every step an item stays in its slot, a Deleted item does not change
\* at all, and a Purchased item that stays Purchased keeps its purchaser.
StepFollowsLifecycle ==
    \A j \in 1..Len(items) :
        /\ j <= Len(items')
        /\ Kind(items[j]) = "Deleted" => items'[j] = items[j]
        /\ (Kind(items[j]) = "Purchased" /\ Kind(items'[j]) = "Purchased") =>
            /\ items'[j].encryptedPurchaserName = items[j].encryptedPurchaserName
            /\ items'[j].purchasedAt = items[j].purchasedAt

\* C6: per-item state machine.  The only lifecycle changes are Available ->
\* Purchased (markAsPurchased), Purchased -> Available (resetItem, as often
\* as wanted) and Available or Purchased -> Deleted (removeItem); Deleted is
\* final; the purchaser of a Purchased item changes only through Available.
C6_ItemStateMachine ==
    /\ [](OperationsFollowLifecycle /\ LifecycleArrowsOpen)
    /\ [][StepFollowsLifecycle]_vars

\* A purchased item that was deleted, beside one purchased in a later block.
C6_Witness ==
    /\ Len(items) = 2
    /\ Kind(items[1]) = "Deleted" /\ items[1].isPurchased
    /\ Kind(items[2]) = "Purchased" /\ items[2].purchasedAt > items[1].purchasedAt

\* -------------------------------------------------------------- C7

\* The outcome of a call that the onlyOwner modifier rejects.
RejectedNotOwner(r) ==
    /\ r.status = NotOwner
    /\ r.owner = owner
    /\ r.items = items
    /\ r.added = <<>>

\* C7: owner-only mutation.  addItem, updateItem, removeItem, resetItem and
\* transferOwnership sent by anyone but the current owner revert with "Only
\* owner can call this function" and change nothing; markAsPurchased gives
\* every caller the outcome it gives the owner, and succeeds for every caller
\* on an available item with a non-empty name.
C7_OwnerOnlyMutation ==
    /\ \A sender \in Callers \ {owner} :
        /\ \A t \in ItemTexts :
            RejectedNotOwner(addItem(sender, t.name, t.description, t.url, t.imageUrl))
        /\ \A itemId \in ItemIds, t \in ItemTexts :
            RejectedNotOwner(updateItem(sender, itemId, t.name, t.description, t.url, t.imageUrl))
        /\ \A itemId \in ItemIds : RejectedNotOwner(removeItem(sender, itemId))
        /\ \A itemId \in ItemIds : RejectedNotOwner(resetItem(sender, itemId))
        /\ \A newOwner \in Callers \cup {ZeroAddress} :
            RejectedNotOwner(transferOwnership(sender, newOwner))
    /\ \A sender \in Callers, itemId \in ItemIds, enc \in EncNames :
        /\ markAsPurchased(sender, itemId, enc) = markAsPurchased(owner, itemId, enc)
        /\ (/\ validItemId(itemId)
            /\ Kind(ItemAt(itemId)) = "Available"
            /\ enc # "") => markAsPurchased(sender, itemId, enc).status = Ok

\* The ownership has been transferred, so the deployer is now the stranger,
\* and there is an item to mutate and one a stranger may purchase.
C7_Witness ==
    /\ owner = "guest"
    /\ \E itemId \in 0..(Len(items) - 1) : Kind(ItemAt(itemId)) = "Available"
    /\ \E itemId \in 0..(Len(items) - 1) : Kind(ItemAt(itemId)) = "Purchased"

\* -------------------------------------------------------------- C8

\* Item j was available and this step purchased it.
PurchasedInStep(j) ==
    /\ Kind(items[j]) = "Available"
    /\ j <= Len(items')
    /\ Kind(items'[j]) = "Purchased"

\* Item j was purchased and this step reset it.
ResetInStep(j) ==
    /\ Kind(items[j]) = "Purchased"
    /\ j <= Len(items')
    /\ Kind(items'[j]) = "Available"

\* Right after a purchase the owner's resetItem brings the whole array back
\* to what it was before the purchase; right after a reset the item is
\* its old self without the purchase record, and any caller can purchase it.
ResetRoundTrip ==
    \A j \in 1..Len(items) :
        /\ PurchasedInStep(j) =>
            LET r == resetItem(owner, j - 1)'
            IN  /\ r.status = Ok
                /\ r.items = items
                /\ r.owner = owner
        /\ ResetInStep(j) =>
            /\ items' = [items EXCEPT ![j].isPurchased = FALSE,
                                      ![j].encryptedPurchaserName = "",
                                      ![j].purchasedAt = 0]
            /\ \A sender \in Callers, enc \in NonEmptyNames :
                LET r == markAsPurchased(sender, j - 1, enc)'
                IN  /\ r.status = Ok
                    /\ r.items[j].isPurchased
                    /\ r.items[j].encryptedPurchaserName = enc

\* resetItem by the owner on an available item succeeds and changes nothing.
ResetOfAvailableIsNoOp ==
    \A itemId \in 0..(Len(items) - 1) :
        Kind(ItemAt(itemId)) = "Available" =>
            resetItem(owner, itemId) = Commit(owner, items, <<>>)

\* C8: reset round trip.  markAsPurchased followed by the owner's resetItem
\* returns the item (and the store) to its state before the purchase, with
\* isPurchased = false, encryptedPurchaserName = "" and purchasedAt = 0;
\* then markAsPurchased with a non-empty name succeeds again; resetItem on an
\* unpurchased item succeeds and leaves it unchanged.
C8_ResetRoundTrip ==
    /\ []ResetOfAvailableIsNoOp
    /\ [][ResetRoundTrip]_vars

\* An item purchased in the second block, after an update of its texts,
\* beside an available one: both kinds of reset the claim speaks of apply.
C8_Witness ==
    /\ Len(items) = 2
    /\ Kind(items[1]) = "Purchased" /\ items[1].purchasedAt = 2
    /\ Kind(items[2]) = "Available"
    /\ items[1].name # items[2].name

\* -------------------------------------------------------------- C9

\* seq without its k-th element.
RemoveAt(seq, k) == SubSeq(seq, 1, k - 1) \o SubSeq(seq, k + 1, Len(seq))

\* How many of items[1..j] are in getAllItems / getAvailableItems /
\* getPurchasedItems: the position of item j in the view, if it is there.
RankAll(j) == Cardinality({k \in 1..j : ~items[k].isDeleted})

RankAvailable(j) == Cardinality({k \in 1..j : Kind(items[k]) = "Available"})

RankPurchased(j) == Cardinality({k \in 1..j : Kind(items[k]) = "Purchased"})

\* A successful removeItem writes the isDeleted flag of its item, nothing else.
RemoveWritesFlagOnly ==
    \A sender \in Callers, itemId \in ItemIds :
        LET r == removeItem(sender, itemId)
        IN  r.status = Ok =>
                /\ r.items = [items EXCEPT ![itemId + 1].isDeleted = TRUE]
                /\ r.owner = owner
                /\ r.added = <<>>

\* A deleted item is still returned by getItem and is in none of the views.
DeletedOnlyInGetItem ==
    /\ \A itemId \in DeletedIds : getItem(itemId) = [status |-> Ok, item |-> ItemAt(itemId)]
    /\ getItemCount = Len(items) - Cardinality(DeletedIds)
    /\ \A k \in 1..Len(getAllItems) : ~getAllItems[k].isDeleted
    /\ \A k \in 1..Len(getAvailableItems) : ~getAvailableItems[k].isDeleted
    /\ \A k \in 1..Len(getPurchasedItems) : ~getPurchasedItems[k].isDeleted

\* The step that deletes item j keeps its values and takes it, and only it,
\* out of the count and out of each view it was in.
RemovedInStep ==
    \A j \in 1..Len(items) :
        (~items[j].isDeleted /\ j <= Len(items') /\ items'[j].isDeleted) =>
            /\ items' = [items EXCEPT ![j].isDeleted = TRUE]
            /\ getItem(j - 1)' = [status |-> Ok, item |-> [items[j] EXCEPT !.isDeleted = TRUE]]
            /\ getItemCount' = getItemCount - 1
            /\ getAllItems' = RemoveAt(getAllItems, RankAll(j))
            /\ getAvailableItems' =
                 IF Kind(items[j]) = "Available"
                 THEN RemoveAt(getAvailableItems, RankAvailable(j))
                 ELSE getAvailableItems
            /\ getPurchasedItems' =
                 IF Kind(items[j]) = "Purchased"
                 THEN RemoveAt(getPurchasedItems, RankPurchased(j))
                 ELSE getPurchasedItems

\* C9: soft delete preserves data.  removeItem(id) changes isDeleted of item
\* id and nothing else in the store; getItem(id) still returns the item with
\* its last values; the item is out of getItemCount, getAllItems,
\* getAvailableItems and getPurchasedItems from then on.
C9_SoftDeletePreservesData ==
    /\ [](RemoveWritesFlagOnly /\ DeletedOnlyInGetItem)
    /\ [][RemovedInStep /\ DeletedStaysDeleted]_vars

\* A purchased item was removed and keeps its name and purchase record; the
\* other item is the only one counted.
C9_Witness ==
    /\ Len(items) = 2
    /\ items[1].isDeleted /\ items[1].isPurchased
    /\ items[1].name = "Item 1" /\ items[1].encryptedPurchaserName = "enc"
    /\ ~items[2].isDeleted
    /\ getItemCount = 1
    /\ getItem(0).item.name = "Item 1"

\* -------------------------------------------------------------- C10

IsActive(item) == ~item.isDeleted

IsAvailable(item) == ~item.isDeleted /\ ~item.isPurchased

IsPurchased(item) == ~item.isDeleted /\ item.isPurchased

\* C10: filtered views.  getAllItems, getAvailableItems and getPurchasedItems
\* return exactly the items that are not deleted, not deleted and not
\* purchased, not deleted and purchased, each once, in index order.
C10_FilteredViews ==
    /\ getAllItems = SelectSeq(items, IsActive)
    /\ getAvailableItems = SelectSeq(items, IsAvailable)
    /\ getPurchasedItems = SelectSeq(items, IsPurchased)

\* Two different active items, the second purchased and then the first:
\* every view is non-empty and getAllItems has an order to keep.
C10_Witness ==
    /\ Len(getAllItems) = 2
    /\ getAllItems[1].name # getAllItems[2].name
    /\ Len(getPurchasedItems) = 1
    /\ Len(getAvailableItems) = 1
    /\ ~items[1].isPurchased

\* -------------------------------------------------------------- C11

\* What a successful markAsPurchased leaves: the item flagged, the name
\* stored, the time of the block stamped, everything else as it was.
PurchaseApplied(r, itemId, enc) ==
    /\ r.status = Ok
    /\ r.owner = owner
    /\ r.added = <<>>
    /\ r.items = [items EXCEPT ![itemId + 1] =
                    [items[itemId + 1] EXCEPT !.isPurchased = TRUE,
                                              !.encryptedPurchaserName = enc,
                                              !.purchasedAt = now]]

\* The claim as stated: each of the four conditions by itself decides the
\* failure, whatever else holds of the call.
C11_AsStated ==
    \A sender \in Callers, itemId \in ItemIds, enc \in EncNames :
        LET r == markAsPurchased(sender, itemId, enc)
            known == itemId < Len(addLog)
        IN  /\ ~known => r.status = InvalidId
            /\ (known /\ ItemAt(itemId).isDeleted) => r.status = ItemRemovedMsg
            /\ (known /\ ItemAt(itemId).isPurchased) => r.status = AlreadyPurchased
            /\ enc = "" => r.status = EmptyName
            /\ (known /\ ~ItemAt(itemId).isDeleted /\ ~ItemAt(itemId).isPurchased /\ enc # "")
                    => PurchaseApplied(r, itemId, enc)

\* C11 (amended): markAsPurchased fails when the id is not below the number
\* of items ever added, when the item is deleted, when it is already
\* purchased, or when the encrypted name is empty, and the message is that
\* of the first of these conditions that holds, in this order: "Invalid item
\* ID", "Item has been removed", "Item already purchased", "Purchaser name
\* required".  In every other case it succeeds for every caller, sets
\* isPurchased, stores the name and stamps the current block time.
C11_MarkAsPurchasedOutcomes ==
    \A sender \in Callers, itemId \in ItemIds, enc \in EncNames :
        LET r == markAsPurchased(sender, itemId, enc)
            known == itemId < Len(addLog)
        IN  IF ~known THEN r.status = InvalidId
            ELSE IF ItemAt(itemId).isDeleted THEN r.status = ItemRemovedMsg
            ELSE IF ItemAt(itemId).isPurchased THEN r.status = AlreadyPurchased
            ELSE IF enc = "" THEN r.status = EmptyName
            ELSE PurchaseApplied(r, itemId, enc)

\* A deleted purchased item, and a purchased item stamped in a later block.
C11_Witness ==
    /\ Len(items) = 2
    /\ items[1].isDeleted /\ items[1].isPurchased
    /\ ~items[2].isDeleted /\ items[2].isPurchased
    /\ items[2].purchasedAt = 2
    /\ items[2].encryptedPurchaserName = "enc2"

\* -------------------------------------------------------------- C12

\* The results of every owner-only call `sender` can make in this state.
OwnerOnlyResults(sender) ==
    {addItem(sender, t.name, t.description, t.url, t.imageUrl) : t \in ItemTexts}
    \cup {updateItem(sender, id, t.name, t.description, t.url, t.imageUrl) :
            id \in ItemIds, t \in ItemTexts}
    \cup {removeItem(sender, id) : id \in ItemIds}
    \cup {resetItem(sender, id) : id \in ItemIds}
    \cup {transferOwnership(sender, newOwner) : newOwner \in Callers \cup {ZeroAddress}}

\* The owner-only calls of `sender` that have no other precondition, or
\* whose other preconditions hold: they name a stored, non-deleted item.
OwnerCallsInOrder(sender) ==
    {addItem(sender, t.name, t.description, t.url, t.imageUrl) : t \in ItemTexts}
    \cup {updateItem(sender, id, t.name, t.description, t.url, t.imageUrl) :
            id \in {k \in 0..(Len(items) - 1) : ~ItemAt(k).isDeleted}, t \in ItemTexts}
    \cup {removeItem(sender, id) : id \in {k \in 0..(Len(items) - 1) : ~ItemAt(k).isDeleted}}
    \cup {resetItem(sender, id) : id \in {k \in 0..(Len(items) - 1) : ~ItemAt(k).isDeleted}}
    \cup {transferOwnership(sender, newOwner) : newOwner \in Callers}

\* A successful transfer to newOwner makes newOwner the owner and nothing else.
TransferByOwner ==
    \A newOwner \in Callers :
        LET r == transferOwnership(owner, newOwner)
        IN  r.status = Ok /\ r.owner = newOwner /\ r.items = items /\ r.added = <<>>

\* After a step that changes the owner, in the new state: every owner-only
\* call of the previous owner fails with NotOwner, none of the new owner's
\* does, and the new owner's calls whose other preconditions hold succeed.
OwnerHandedOver ==
    owner' # owner =>
        \E prev \in Callers, new \in Callers :
            /\ prev = owner
            /\ new = owner'
            /\ \A r \in OwnerOnlyResults(prev)' : r.status = NotOwner
            /\ \A r \in OwnerOnlyResults(new)' : r.status # NotOwner
            /\ \A r \in OwnerCallsInOrder(new)' : r.status = Ok

\* The claim as stated: transferOwnership(address(0)) fails with "New owner
\* cannot be zero address" whoever calls it.
C12_AsStated ==
    /\ [](/\ \A sender \in Callers :
                LET r == transferOwnership(sender, ZeroAddress)
                IN  r.status = NullTarget /\ r.owner = owner
          /\ TransferByOwner
          /\ owner # ZeroAddress)
    /\ [][OwnerHandedOver]_vars

\* C12 (amended): transferOwnership(address(0)) fails and leaves the owner
\* unchanged, with "New owner cannot be zero address" when the owner calls
\* it and with "Only owner can call this function" when anyone else does; a
\* successful transferOwnership(newOwner) by the owner makes newOwner the
\* owner, after which the previous owner's owner-only calls fail with
\* NotOwner and newOwner's succeed; the owner is never address(0).
C12_OwnershipTransfer ==
    /\ [](/\ \A sender \in Callers :
                LET r == transferOwnership(sender, ZeroAddress)
                IN  /\ r.status = IF sender = owner THEN NullTarget ELSE NotOwner
                    /\ r.owner = owner
                    /\ r.items = items
          /\ TransferByOwner
          /\ owner # ZeroAddress)
    /\ [][OwnerHandedOver]_vars

\* The ownership went to the guest, who administers a store of two items.
C12_Witness ==
    /\ owner = "guest"
    /\ Len(items) = 2
    /\ ~items[1].isDeleted
    /\ items[2].isDeleted

\* -------------------------------------------------------------- C13

\* The outcome of every call of every mutating operation in this state.
AllResults ==
    UNION {OwnerOnlyResults(sender) : sender \in Callers}
    \cup {markAsPurchased(sender, id, enc) :
            sender \in Callers, id \in ItemIds, enc \in EncNames}

\* The messages a failing store operation reverts with.
FailureMessages ==
    {NotOwner, InvalidId, UpdateDeleted, ItemRemovedMsg, ResetDeleted,
     AlreadyDeleted, AlreadyPurchased, EmptyName, NullTarget}

\* C13: every store operation that fails, with whichever of the revert
\* messages, leaves every field of every item, the item count and the owner
\* exactly as they were before the call, and emits no event.
C13_NoPartialMutation ==
    \A r \in AllResults :
        r.status # Ok =>
            /\ r.status \in FailureMessages
            /\ r.items = items
            /\ Len(r.items) = Len(items)
            /\ r.owner = owner
            /\ r.added = <<>>

\* Calls failing with every message but the empty-name one exist: the store
\* holds a deleted item and a purchased one, and the guest is not the owner.
C13_Witness ==
    /\ Len(items) = 2
    /\ FailureMessages \ {EmptyName} \subseteq {r.status : r \in AllResults}

\* -------------------------------------------------------------- C14

\* The requests that have arrived.
Handled == {rq \in RequestIds : reqs[rq].pc # "idle"}

\* No request has arrived yet.  What validatePurchase answers depends on the
\* body and on process.env only, and no step changes process.env, so its
\* answers to every body are examined in these states, of which there are
\* some for every configuration.
BeforeAnyRequest == Handled = {}

\* The request was answered before the handler called anything: no read of
\* the store, no encryption, no transaction, no notification.
AnsweredAtOnce(rq) ==
    /\ reqs[rq].pc = "done"
    /\ reqs[rq].calls = <<>>
    /\ reqs[rq].item = NoItem
    /\ reqs[rq].encryptedName = ""
    /\ reqs[rq].estimate = ""
    /\ reqs[rq].receipt = ""

NoItemId(body) == body.itemId \in {Undefined, Null}

\* purchaserName is missing, empty or made of whitespace only.
BlankName(body) ==
    \/ body.purchaserName = Undefined
    \/ /\ body.purchaserName.type = "string"
       /\ \A i \in 1..Len(body.purchaserName.value) :
            SubSeq(body.purchaserName.value, i, i) = " "

\* C16: with the correct password, a POST /purchase is answered 400 when
\* itemId is missing or null, or when purchaserName is missing, empty or
\* whitespace-only, and the handler calls nothing in that case: no store
\* read, no encryption, no submission.
C16_InputValidation ==
    ~Falsy(env.REGISTRY_PASSWORD) =>
        /\ BeforeAnyRequest =>
            \A body \in AllBodies :
                (body.password = env.REGISTRY_PASSWORD
                    /\ (NoItemId(body) \/ BlankName(body))) =>
                    /\ validatePurchase(body).statusCode = 400
                    /\ validatePurchase(body) =
                            IF NoItemId(body) THEN ItemIdRequired ELSE PurchaserNameRequired
        /\ \A rq \in Handled :
            (/\ reqs[rq].body.password = env.REGISTRY_PASSWORD
             /\ (NoItemId(reqs[rq].body) \/ BlankName(reqs[rq].body))) =>
                /\ reqs[rq].response.statusCode = 400
                /\ AnsweredAtOnce(rq)

\* A request with a null itemId and one with a blank name were answered 400.
C16_Witness ==
    /\ reqs[1].body.itemId = Null
    /\ reqs[1].response = ItemIdRequired
    /\ reqs[2].body.purchaserName = Str("  ")
    /\ reqs[2].response = PurchaserNameRequired

\* -------------------------------------------------------------- C17

\* The step in which the read of request rq settles with an answer of the
\* store (and not with a refusal of the provider).
ItemReadSettles(rq) ==
    /\ reqs[rq].pc = "items"
    /\ reqs'[rq].pc # "items"
    /\ reqs'[rq].response # FailedToProcess(RateLimited.message)

\* C17: when the item read from the store during POST /purchase is already
\* purchased, the request is answered 409 with the item id, and the handler
\* has called nothing but the read: no encryption, no markAsPurchased, no
\* notification.  The read returns the item as the store holds it when the
\* read settles, and the store is left as it is.
C17_PreCheck ==
    /\ [](\A rq \in Handled :
            reqs[rq].item.isPurchased =>
                /\ reqs[rq].pc = "done"
                /\ reqs[rq].response = PreCheckConflict(reqs[rq].body.itemId.value)
                /\ reqs[rq].response.statusCode = 409
                /\ reqs[rq].calls = <<"items">>
                /\ reqs[rq].encryptedName = ""
                /\ reqs[rq].estimate = ""
                /\ reqs[rq].receipt = "")
    /\ [][\A rq \in RequestIds :
            (/\ ItemReadSettles(rq)
             /\ validItemId(reqs[rq].body.itemId.value)
             /\ ItemAt(reqs[rq].body.itemId.value).isPurchased) =>
                /\ reqs'[rq].item = ItemAt(reqs[rq].body.itemId.value)
                /\ reqs'[rq].response.statusCode = 409
                /\ UNCHANGED <<owner, items, addLog>>]_vars

\* The first request bought item 0 and was answered 200; the second one read
\* the purchased item and was answered 409.
C17_Witness ==
    /\ reqs[1].response.statusCode = 200
    /\ reqs[1].body.itemId = Num(0)
    /\ reqs[2].response = PreCheckConflict(0)

\* -------------------------------------------------------------- C18

\* The pre-check of request rq passed: it read an item that was not purchased.
PassedPreCheck(rq) ==
    /\ Len(reqs[rq].calls) >= 2
    /\ reqs[rq].calls[2] = "encryptPurchaserName"
    /\ ~reqs[rq].item.isPurchased

\* C18, as stated: a request that passed the pre-check and whose
\* markAsPurchased the store rejected with "Item already purchased", be it
\* when the gas is estimated or when the transaction is mined, is answered
\* 409, never 500 and never 200.
C18_AsStated ==
    \A rq \in Handled :
        (/\ reqs[rq].pc = "done"
         /\ PassedPreCheck(rq)
         /\ \/ reqs[rq].estimate = AlreadyPurchased
            \/ reqs[rq].receipt = AlreadyPurchased) =>
            reqs[rq].response.statusCode = 409

\* -------------------------------------------------------------- C19

\* The requests that carried the right password for item itemId, read it,
\* and have seen no reset of it since they arrived.
Contenders(itemId) ==
    {rq \in Handled :
        /\ reqs[rq].body.password = env.REGISTRY_PASSWORD
        /\ reqs[rq].body.itemId = Num(itemId)
        /\ reqs[rq].item # NoItem
        /\ ~reqs[rq].resetSince}

\* The requests whose markAsPurchased the store applied.
Applied(rqs) == {rq \in rqs : reqs[rq].receipt = Ok}

\* The requests answered 200.
Succeeded(rqs) == {rq \in rqs : reqs[rq].response.statusCode = 200}

UnusableKeys == {Undefined, Null, Str(""), Str("0xzz"), Str("zz"), Str("0x04")}

\* The encryption of request rq failed: it was the last thing the handler called.
EncryptionFailedFor(rq) ==
    /\ reqs[rq].pc = "done"
    /\ reqs[rq].calls = <<"items", "encryptPurchaserName">>

\* C20: when encryptPurchaserName fails, for whatever reason (the owner's
\* key missing or malformed), POST /purchase is answered 500, no
\* markAsPurchased is submitted and no notification is sent; so with an
\* unusable key no request buys anything.  (encryptPurchaserName reads its
\* arguments only, so what it does with the unusable keys is examined
\* before the first request.)
C20_EncryptionFailsClosed ==
    /\ BeforeAnyRequest =>
        /\ \A key \in UnusableKeys, name \in {"", "Ann"}, entropy \in RequestIds :
            LET encrypted == encryptPurchaserName(key, name, entropy)
            IN  ~encrypted.ok /\ encrypted.message = EncryptionFailed
        /\ purchaseErrorResponse(EncryptionFailed) = FailedToProcess(EncryptionFailed)
    /\ \A rq \in Handled :
        EncryptionFailedFor(rq) =>
            /\ reqs[rq].response = FailedToProcess(EncryptionFailed)
            /\ reqs[rq].response.statusCode = 500
            /\ reqs[rq].encryptedName = ""
            /\ reqs[rq].estimate = ""
            /\ reqs[rq].receipt = ""
    /\ env.OWNER_PUBLIC_KEY \in UnusableKeys =>
        /\ \A rq \in Handled :
            /\ reqs[rq].estimate = "" /\ reqs[rq].receipt = ""
            /\ \A k \in 1..Len(reqs[rq].calls) :
                reqs[rq].calls[k] \in {"items", "encryptPurchaserName"}
            /\ reqs[rq].response.statusCode # 200
        /\ \A j \in 1..Len(items) : ~items[j].isPurchased

\* With a malformed key and with none, a request for a listed, available
\* item got as far as the encryption and was answered 500.
C20_Witness ==
    /\ env.OWNER_PUBLIC_KEY = Str("0xzz")
    /\ EncryptionFailedFor(1)
    /\ reqs[1].response.statusCode = 500
    /\ ~reqs[1].item.isDeleted

\* -------------------------------------------------------------- C21

\* The position of the first call named `name` in the calls of rq, 0 when
\* the request has not made it.
FirstCall(rq, name) ==
    IF \E i \in 1..Len(reqs[rq].calls) : reqs[rq].calls[i] = name
    THEN CHOOSE i \in 1..Len(reqs[rq].calls) :
            /\ reqs[rq].calls[i] = name
            /\ \A j \in 1..(i - 1) : reqs[rq].calls[j] # name
    ELSE 0

\* The requests that have called contract.markAsPurchased.
Submitted == {rq \in RequestIds : FirstCall(rq, "markAsPurchased") > 0}

\* The name the request carries, as posted and as the handler trims it.
PlainNames(rq) ==
    {reqs[rq].body.purchaserName.value, Trim(reqs[rq].body.purchaserName.value)}

\* C21: every markAsPurchased the relayer submits comes, within its request,
\* after a successful encryption of the request's purchaserName, and the
\* name argument submitted is the output of that encryption and never the
\* plaintext name; so the name the store holds for a purchased item is the
\* ciphertext of one of the requests.
C21_EncryptBeforeSubmit ==
    /\ \A rq \in Submitted :
          LET encrypted == encryptPurchaserName(env.OWNER_PUBLIC_KEY,
                              Trim(reqs[rq].body.purchaserName.value), rq)
          IN  /\ FirstCall(rq, "encryptPurchaserName") > 0
              /\ FirstCall(rq, "encryptPurchaserName") < FirstCall(rq, "markAsPurchased")
              /\ encrypted.ok
              /\ reqs[rq].encryptedName = encrypted.value
              /\ reqs[rq].encryptedName \notin PlainNames(rq)
    /\ \A itemId \in 0..(Len(items) - 1) :
          ItemAt(itemId).isPurchased =>
              \E rq \in Submitted :
                  /\ ItemAt(itemId).encryptedPurchaserName = reqs[rq].encryptedName
                  /\ ItemAt(itemId).encryptedPurchaserName \notin PlainNames(rq)

\* A request has submitted its markAsPurchased and the store holds its
\* ciphertext.
C21_Witness ==
    \E rq \in Submitted :
        /\ reqs[rq].receipt = Ok
        /\ \E itemId \in 0..(Len(items) - 1) :
              /\ ItemAt(itemId).isPurchased
              /\ ItemAt(itemId).encryptedPurchaserName = reqs[rq].encryptedName

\* -------------------------------------------------------------- C22

\* The requests answered 200.
AnsweredSuccess == {rq \in RequestIds : reqs[rq].response.statusCode = 200}

\* The chain mines the transaction of rq and it does not revert.
ConfirmedNow(rq) ==
    /\ reqs[rq].pc = "pending"
    /\ reqs'[rq].pc = "wait"
    /\ reqs'[rq].receipt = Ok

\* C22: POST /purchase is answered 200 {success, itemId, transactionHash}
\* only after the store has applied and confirmed that request's
\* markAsPurchased: a request answered 200 has sent its transaction and
\* holds the receipt of its success, no request whose submission the store
\* rejected or whose transaction was never confirmed is answered 200, and at
\* the moment the store confirms the transaction the item is purchased with
\* the ciphertext that request submitted.
C22_SuccessMeansApplied ==
    /\ [](\A rq \in RequestIds :
            /\ rq \in AnsweredSuccess =>
                  /\ reqs[rq].estimate = Ok
                  /\ reqs[rq].receipt = Ok
                  /\ reqs[rq].response =
                        PurchaseSucceeded(reqs[rq].body.itemId.value, TxHash(rq))
            /\ reqs[rq].receipt # Ok => rq \notin AnsweredSuccess)
    /\ [][\A rq \in RequestIds :
            ConfirmedNow(rq) =>
                LET itemId == reqs[rq].body.itemId.value
                IN  /\ itemId < Len(items')
                    /\ items'[itemId + 1].isPurchased
                    /\ items'[itemId + 1].encryptedPurchaserName = reqs[rq].encryptedName
                    /\ ~items[itemId + 1].isPurchased]_vars

\* A request is answered 200 while another, whose transaction was sent for
\* the same item, holds the receipt of a revert.
C22_Witness ==
    \E rq \in AnsweredSuccess, other \in RequestIds :
        /\ other # rq
        /\ reqs[other].estimate = Ok
        /\ reqs[other].receipt = AlreadyPurchased
        /\ reqs[other].pc = "done"

\* -------------------------------------------------------------- C23

\* The answer a confirmed purchase of rq gets.
SuccessOf(rq) == PurchaseSucceeded(reqs[rq].body.itemId.value, TxHash(rq))

\* C23: the notification of a request is started only after the store has
\* confirmed its purchase; the 200 response does not wait for it: it is
\* returned on the step that starts the notification, while the notification
\* is still on its way or was skipped for want of an endpoint; and whether
\* the notification then succeeds, fails, never completes or was skipped,
\* the response of the purchase is the same 200 and the store is unaffected.
C23_FireAndForget ==
    /\ [](\A rq \in RequestIds :
            IF reqs[rq].notification = "none"
            THEN reqs[rq].response.statusCode # 200
            ELSE /\ reqs[rq].receipt = Ok
                 /\ reqs[rq].calls = <<"items", "encryptPurchaserName", "markAsPurchased",
                                       "submitPurchaseNotification">>
                 /\ reqs[rq].response = SuccessOf(rq)
                 /\ reqs[rq].notification = "skipped" <=> Falsy(env.FORMSPREE_ENDPOINT))
    /\ [][\A rq \in RequestIds :
            reqs'[rq].notification # reqs[rq].notification =>
                IF reqs[rq].notification = "none"
                THEN /\ reqs[rq].pc = "wait"
                     /\ reqs'[rq].pc = "done"
                     /\ reqs'[rq].response = SuccessOf(rq)
                     /\ reqs'[rq].notification \in {"pending", "skipped"}
                ELSE /\ reqs[rq].notification = "pending"
                     /\ reqs'[rq].notification \in NotificationOutcomes
                     /\ reqs'[rq].response = reqs[rq].response
                     /\ reqs'[rq].pc = "done"
                     /\ UNCHANGED <<owner, items, addLog>>]_vars

\* Of two confirmed purchases, answered 200 alike, the notification of one
\* has failed and that of the other is still on its way.
C23_Witness ==
    \E rq \in AnsweredSuccess, other \in AnsweredSuccess :
        /\ reqs[rq].notification = "failed"
        /\ reqs[other].notification = "pending"
        /\ reqs[rq].response = SuccessOf(rq)
        /\ reqs[other].response = SuccessOf(other)

\* A confirmed purchase is answered 200 and its notification was skipped.
C23_WitnessSkipped ==
    \E rq \in AnsweredSuccess :
        /\ reqs[rq].notification = "skipped"
        /\ env.FORMSPREE_ENDPOINT = Undefined

\* -------------------------------------------------------------- C24

\* The entry at position k (from 1) carries the values the store holds at
\* index k - 1, with that index as its id.
CarriesStoreValues(entry, k) ==
    /\ entry.id = k - 1
    /\ entry.name = items[k].name
    /\ entry.description = items[k].description
    /\ entry.url = items[k].url
    /\ entry.imageUrl = items[k].imageUrl
    /\ entry.isPurchased = items[k].isPurchased
    /\ entry.isDeleted = items[k].isDeleted
    /\ entry.purchasedAt = IF items[k].purchasedAt = 0 THEN Null
                           ELSE Num(items[k].purchasedAt)

\* The listing answered 200 with one entry for every item of the store,
\* deleted ones included, each at its index, and with their count.
ListingMatchesStore ==
    /\ list.response.statusCode = 200
    /\ Len(list.response.items) = Len(items)
    /\ \A k \in 1..Len(items) : CarriesStoreValues(list.response.items[k], k)
    /\ list.response.count = Len(list.response.items)

\* The part of C24 about the response: it holds in every listing of a store
\* of at most `limit` items whose reads failed with the end of range only.
ListingComplete ==
    (list.pc = "done" /\ ~list.faulted /\ Len(items) <= ListingCap) => ListingMatchesStore

\* C24, as stated: for a store holding n <= limit items (the limit being 1024
\* in the code) and no read error other than the end-of-range signal at
\* index n, GET /items answers 200 with exactly n entries, deleted items
\* included, the entry at position k having id k and the store's values for
\* index k, and count equal to the number of entries; and reading stops at
\* the first end-of-range signal: the store is not read again once it has
\* answered with the end of range.
C24_AsStated ==
    (~list.faulted /\ Len(items) <= ListingCap) =>
        /\ list.pc = "done" => ListingMatchesStore
        /\ list.signals <= 1
        /\ list.signals = 1 => list.pc = "done"

\* -------------------------------------------------------------- C25

\* The read of the index the listing is at fails with an error that is not
\* the end-of-range signal, and retryWithBackoff throws it.
ReadFailsForGood ==
    /\ list.pc = "read"
    /\ list'.pc \in {"read", "done"}
    /\ list'.error # NoError
    /\ ~isEndOfArray(list'.error)

\* C25: when the read of index i fails with an error that is not the
\* end-of-range signal, the entry at position i is a placeholder with id i
\* and isDeleted = true, and index i + 1 is read next (unless i was the last
\* index below the limit, and the listing answers); every entry of the
\* listing, before and after a placeholder, has its position for id, and
\* the response is 200 with the entries collected.
C25_ReadFailureNotFatal ==
    /\ [](/\ \A k \in 1..Len(list.entries) : list.entries[k].id = k - 1
          /\ list.pc = "done" => /\ list.response.statusCode = 200
                                 /\ list.response.items = list.entries
                                 /\ list.response.count = Len(list.entries))
    /\ [][ReadFailsForGood =>
            /\ Len(list'.entries) = list.index + 1
            /\ list'.entries[list.index + 1].id = list.index
            /\ list'.entries[list.index + 1].isDeleted = TRUE
            /\ list'.entries[list.index + 1].isPurchased = FALSE
            /\ SubSeq(list'.entries, 1, list.index) = list.entries
            /\ IF list.index + 1 < ListingCap
               THEN list'.pc = "read" /\ list'.index = list.index + 1 /\ list'.attempt = 0
               ELSE list'.pc = "done"]_vars

\* The listing answered 200 with a placeholder at position 0, for a read
\* that failed, followed by the item the store holds at index 1.
C25_Witness ==
    /\ list.pc = "done"
    /\ list.response.statusCode = 200
    /\ Len(list.response.items) >= 2
    /\ Len(items) >= 2
    /\ list.response.items[1] = placeholder(0)
    /\ list.response.items[1] # formatItem(0, items[1])
    /\ list.response.items[2] = formatItem(1, items[2])

\* -------------------------------------------------------------- C26

\* The listing is under way: it has a read in flight or sleeps.
Listing == list.pc \in {"read", "sleep", "backoff"}

\* C26: whatever the store answers (items at every index, errors at every
\* attempt, or any mix), GET /items eventually returns a response, having
\* probed no index outside 0 .. limit - 1 (the limit being 1024 in the
\* code) and made at most 3 read attempts at an index, and the response
\* never has more entries than the limit.
C26_ListingTerminates ==
    /\ [](/\ Listing => /\ list.index \in 0..(ListingCap - 1)
                        /\ list.attempt + 1 \in 1..MaxRetries
          /\ Len(list.entries) <= ListingCap
          /\ list.pc = "done" => /\ list.response.statusCode = 200
                                 /\ Len(list.response.items) <= ListingCap
                                 /\ list.response.count <= ListingCap)
    /\ (list.pc # "idle" ~> list.pc = "done")

\* The listing has answered from a store that holds more items than the
\* limit, one entry for every index below the limit.
C26_Witness ==
    /\ list.pc = "done"
    /\ Len(items) > ListingCap
    /\ Len(list.response.items) = ListingCap

\* The listing has answered after an error at every attempt at every index.
C26_WitnessErrors ==
    /\ list.pc = "done"
    /\ list.index = ListingCap - 1
    /\ list.attempt = MaxRetries - 1
    /\ \A k \in 1..Len(list.entries) : list.entries[k] = placeholder(k - 1)
    /\ Len(list.entries) = ListingCap

\* -------------------------------------------------------------- C27

\* An attempt of retryWithBackoff at the index the listing is at settles.
AttemptSettles == list.pc = "read" /\ list' # list

C27_WitnessThirdAttempt ==
    /\ list.pc = "read"
    /\ list.attempt + 1 = 3
    /\ list.gap = 2000

\* -------------------------------------------------------------- C28

\* The failures of a read that are not transient: the index is out of
\* range, the store rejects the call by a require, the answer cannot be
\* decoded.
NotTransient == {EndOfRange, Rejected, Undecodable}

\* C28, as stated: a read failure that is not classified as transient, in
\* particular the index-out-of-range failure and a precondition rejection
\* of the store, is propagated after a single attempt, with no retry and no
\* backoff delay: the listing never sleeps for a backoff after such a
\* failure.
C28_AsStated ==
    list.error \in NotTransient => list.pc # "backoff"

\* -------------------------------------------------------------- C29

\* The number of times rq has made the call named `name`.
Attempts(rq, name) ==
    Cardinality({i \in 1..Len(reqs[rq].calls) : reqs[rq].calls[i] = name})

\* The requests answered 500 for a call the provider refused as rate
\* limited, an error retryWithBackoff takes for transient.
FailedOnTransient ==
    {rq \in RequestIds :
        /\ isRateLimit(RateLimited)
        /\ reqs[rq].response = FailedToProcess(RateLimited.message)}

\* C29, as stated: a POST /purchase whose store read or submission fails
\* with a transient upstream error is retried up to 3 attempts, with the
\* backoff of the listing, before the failure is surfaced as 500: a request
\* answered 500 for such a failure has made the failing call 3 times.
C29_AsStated ==
    \A rq \in FailedOnTransient :
        Attempts(rq, reqs[rq].calls[Len(reqs[rq].calls)]) = MaxRetries

\* -------------------------------------------------------------- C30

\* A read request is in flight that is not the first of the listing.
LaterRead == list.pc = "read" /\ ~(list.index = 0 /\ list.attempt = 0)

\* C30, as stated: between any two consecutive read requests the listing
\* sends to the store there is a wait of at least the inter-request delay
\* (50 ms), also after a read that failed and was replaced by a placeholder.
C30_AsStated ==
    LaterRead => list.gap >= ListingDelayMs

\* -------------------------------------------------------------- C31

\* A step in which a GET /health is answered.
HealthAnswered == proc'.healthChecks = proc.healthChecks + 1

\* C31: every GET /health is answered 200, whether the connection to the
\* store was initialized or not, whether or not the reads of the store fail,
\* and whatever part of the configuration is missing; and answering it calls
\* nothing of the store: the connection, the listing, the purchase requests
\* and the store are as they were.
C31_HealthAlwaysSucceeds ==
    /\ [](proc.healthChecks > 0 => proc.health.statusCode = 200)
    /\ [][HealthAnswered =>
            /\ proc'.health.statusCode = 200
            /\ proc'.health.status = "healthy"
            /\ proc'.provider = proc.provider
            /\ proc'.relayerWallet = proc.relayerWallet
            /\ proc'.contract = proc.contract
            /\ UNCHANGED <<owner, items, addLog, env, reqs, list>>]_vars

\* Health was answered 200 before the connection was initialized, without
\* the wallet's key and the contract's address.
C31_Witness ==
    /\ proc.healthChecks > 0
    /\ proc.health.statusCode = 200
    /\ Falsy(proc.provider)
    /\ Falsy(env.RELAYER_PRIVATE_KEY)
    /\ Falsy(env.CONTRACT_ADDRESS)

\* Health was answered 200 after the connection was initialized, while a
\* read of the store had failed and was waiting to be retried.
C31_WitnessStoreFailing ==
    /\ proc.healthChecks = MaxHealthChecks
    /\ proc.health.statusCode = 200
    /\ ~Falsy(proc.provider)
    /\ list.pc = "backoff"
    /\ list.error = RateLimited

\* -------------------------------------------------------------- C32

\* C32, as stated: the body of every GET /health response carries the
\* address of the relayer's wallet and the configured address of the store,
\* also when the health check is the first request the process handles.
C32_AsStated ==
    proc.healthChecks > 0 =>
        /\ proc.health.relayerAddress.type = "string"
        /\ proc.health.relayerAddress.value # NotInitialized
        /\ ~Falsy(env.RELAYER_PRIVATE_KEY) =>
              proc.health.relayerAddress = Str(computeAddress(env.RELAYER_PRIVATE_KEY.value))
        /\ proc.health.contractAddress.type = "string"

\* -------------------------------------------------------------- C33

\* C33, as stated: when the read of a POST /purchase that passed the checks
\* of password and body settles for an itemId that is not below the number
\* of items of the store, the request is answered 404 'Item not found', and
\* the store is left unchanged.
C33_AsStated ==
    [][\A rq \in RequestIds :
          (/\ ItemReadSettles(rq)
           /\ reqs[rq].body.password = env.REGISTRY_PASSWORD
           /\ ~validItemId(reqs[rq].body.itemId.value)) =>
              /\ reqs'[rq].pc = "done"
              /\ reqs'[rq].response = ItemNotFound
              /\ UNCHANGED <<owner, items, addLog>>]_vars

\* -------------------------------------------------------------- C34

\* What a purchaser's name may be in the store: the empty string of an item
\* never purchased, the ciphertexts, and a name stored in the clear.
StoredNames == <<"", "enc", "enc2", "Ann">>

\* Stores that differ from `store` in encryptedPurchaserName values only:
\* the items carry the names of StoredNames in turn, from each of them on,
\* so that every item carries every name in one of the stores and
\* neighbours carry different ones.
Renamed(store) ==
    {[k \in 1..Len(store) |->
        [store[k] EXCEPT !.encryptedPurchaserName =
                            StoredNames[((k + turn) % Len(StoredNames)) + 1]]] :
        turn \in 1..Len(StoredNames)}

\* What the provider may answer to the read of index `index` of `store`.
AnswersOf(store, index) ==
    {Failed(RateLimited), Failed(Undecodable)}
        \cup (IF index < Len(store) THEN {Found(store[index + 1])} ELSE {Failed(EndOfRange)})

\* The text fields of a listing entry.
TextsOf(entry) == {entry.name, entry.description, entry.url, entry.imageUrl}

\* C34: no entry of a GET /items response has a field for the encrypted
\* purchaser name, and none of its fields holds the name a purchased item
\* carries in the store; and the listing does not depend on the names:
\* whenever a read is in flight, a store that differs in
\* encryptedPurchaserName values only fails the read with the same errors
\* and, when it answers with its item, takes the listing to the same state,
\* so that it produces the same entries and the same response.
C34_NamesStayOut ==
    /\ \A k \in 1..Len(list.entries) :
          /\ DOMAIN list.entries[k] =
                {"id", "name", "description", "url", "imageUrl",
                 "isPurchased", "isDeleted", "purchasedAt"}
          /\ \A j \in 1..Len(items) :
                items[j].encryptedPurchaserName # "" =>
                    items[j].encryptedPurchaserName \notin TextsOf(list.entries[k])
    /\ list.pc = "done" => list.response.items = list.entries
    /\ AnswersOf(items, list.index) = ReadAnswers(list.index)
    /\ list.pc = "read" =>
          \A other \in Renamed(items) :
              /\ {answer \in AnswersOf(other, list.index) : ~answer.ok}
                    = {answer \in ReadAnswers(list.index) : ~answer.ok}
              /\ \A answer \in AnswersOf(other, list.index) :
                    answer.ok =>
                        Settled(list, answer) = Settled(list, Found(ItemAt(list.index)))
    /\ \A k \in 1..Len(items), n \in 1..Len(StoredNames) :
          formatItem(k - 1, [items[k] EXCEPT !.encryptedPurchaserName = StoredNames[n]])
              = formatItem(k - 1, items[k])

\* The listing answered with the entry of a purchased item, whose name the
\* store holds.
C34_Witness ==
    /\ list.pc = "done"
    /\ \E k \in 1..Len(list.response.items) :
          /\ k <= Len(items)
          /\ items[k].isPurchased
          /\ items[k].encryptedPurchaserName = "enc"
          /\ list.response.items[k] = formatItem(k - 1, items[k])
          /\ list.response.items[k].isPurchased

\* -------------------------------------------------------------- C35

\* The preconditions of the store operations, in the order the contract
\* checks them: the modifiers onlyOwner and validItemId, then the requires
\* of the body on isDeleted, on isPurchased and on the name.
Preconditions == <<"owner", "valid", "notDeleted", "notPurchased", "name">>

\* Whether the call violates precondition p (those on the item are violated
\* only by an item that exists).
Violates(p, sender, itemId, encryptedPurchaserName) ==
    CASE p = "owner" -> sender # owner
      [] p = "valid" -> itemId >= Len(items)
      [] p = "notDeleted" -> itemId < Len(items) /\ items[itemId + 1].isDeleted
      [] p = "notPurchased" -> itemId < Len(items) /\ items[itemId + 1].isPurchased
      [] p = "name" -> encryptedPurchaserName = ""

\* The first of the preconditions `checked` (positions in Preconditions)
\* that the call violates, 0 when it violates none.
FirstViolated(checked, sender, itemId, encryptedPurchaserName) ==
    LET violated == {k \in checked :
                        Violates(Preconditions[k], sender, itemId, encryptedPurchaserName)}
    IN  IF violated = {} THEN 0
        ELSE CHOOSE k \in violated : \A other \in violated : k <= other

\* C35: when several preconditions of a store operation are violated at
\* once, the failure reported is that of the first violated one in the order
\* NotOwner, InvalidId, ItemDeleted/AlreadyDeleted, AlreadyPurchased,
\* EmptyName (each operation with the message it has for it), and the call
\* succeeds when none is violated.
C35_FailurePrecedence ==
    \A sender \in Callers, itemId \in ItemIds :
        /\ \A t \in ItemTexts :
              updateItem(sender, itemId, t.name, t.description, t.url, t.imageUrl).status =
                  <<Ok, NotOwner, InvalidId, UpdateDeleted>>
                      [FirstViolated({1, 2, 3}, sender, itemId, "") + 1]
        /\ removeItem(sender, itemId).status =
              <<Ok, NotOwner, InvalidId, AlreadyDeleted>>
                  [FirstViolated({1, 2, 3}, sender, itemId, "") + 1]
        /\ resetItem(sender, itemId).status =
              <<Ok, NotOwner, InvalidId, ResetDeleted>>
                  [FirstViolated({1, 2, 3}, sender, itemId, "") + 1]
        /\ \A enc \in EncNames :
              markAsPurchased(sender, itemId, enc).status =
                  <<Ok, NotOwner, InvalidId, ItemRemovedMsg, AlreadyPurchased, EmptyName>>
                      [FirstViolated({2, 3, 4, 5}, sender, itemId, enc) + 1]

\* An item is both purchased and deleted: markAsPurchased on it with an
\* empty name violates three preconditions and reports the removal; and a
\* guest's removeItem of an id out of range reports the owner check.
C35_Witness ==
    /\ \E itemId \in 0..(Len(items) - 1) :
          /\ ItemAt(itemId).isPurchased
          /\ ItemAt(itemId).isDeleted
          /\ markAsPurchased("guest", itemId, "").status = ItemRemovedMsg
    /\ owner # "guest"
    /\ removeItem("guest", MaxItems).status = NotOwner

\* -------------------------------------------------------------- C36

\* The fields of an item updateItem does not write.
PurchaseRecord(item) ==
    <<item.isPurchased, item.encryptedPurchaserName, item.purchasedAt, item.isDeleted>>

\* C36: a successful updateItem(id, ...) writes name, description, url and
\* imageUrl of item id and nothing else: the purchase fields and isDeleted of
\* that item, every other item, the number of items and the owner are as
\* before, and no ItemAdded event is logged; and it succeeds on a purchased
\* item that is not deleted, whose purchase record it keeps.
C36_UpdateItemFrame ==
    \A sender \in Callers, itemId \in ItemIds, t \in ItemTexts :
        LET result == updateItem(sender, itemId, t.name, t.description, t.url, t.imageUrl)
        IN  /\ result.status = Ok =>
                  /\ result.owner = owner
                  /\ result.added = <<>>
                  /\ Len(result.items) = Len(items)
                  /\ \A k \in 1..Len(items) : k # itemId + 1 => result.items[k] = items[k]
                  /\ result.items[itemId + 1].name = t.name
                  /\ result.items[itemId + 1].description = t.description
                  /\ result.items[itemId + 1].url = t.url
                  /\ result.items[itemId + 1].imageUrl = t.imageUrl
                  /\ PurchaseRecord(result.items[itemId + 1]) = PurchaseRecord(items[itemId + 1])
            /\ (/\ sender = owner
                /\ validItemId(itemId)
                /\ ItemAt(itemId).isPurchased
                /\ ~ItemAt(itemId).isDeleted) => result.status = Ok

\* A purchased item, not deleted, that an update would give another text.
C36_Witness ==
    \E itemId \in 0..(Len(items) - 1), t \in ItemTexts :
        /\ ItemAt(itemId).isPurchased
        /\ ~ItemAt(itemId).isDeleted
        /\ ItemAt(itemId).name # t.name
        /\ updateItem(owner, itemId, t.name, t.description, t.url, t.imageUrl).status = Ok

\* -------------------------------------------------------------- C37

\* The requests that carried the right password and read an item that was
\* deleted and not purchased.  (A deleted item stays deleted: no operation
\* of the store clears isDeleted.)
ReadDeletedItem ==
    {rq \in Handled :
        /\ reqs[rq].body.password = env.REGISTRY_PASSWORD
        /\ reqs[rq].item # NoItem
        /\ reqs[rq].item.isDeleted
        /\ ~reqs[rq].item.isPurchased}

\* C37: a POST /purchase with the right password for an item that is deleted
\* and not purchased is never answered 200, its transaction is never sent,
\* so that it never changes the store, and no notification is sent for it.
\* The pre-check lets the deleted item pass (the read is followed by the
\* encryption); the store rejects markAsPurchased with "Item has been
\* removed" when the gas is estimated, after the name has been encrypted,
\* and the request is then answered 500.
C37_DeletedItemPurchase ==
    /\ [](\A rq \in ReadDeletedItem :
            /\ reqs[rq].response.statusCode # 200
            /\ reqs[rq].pc \notin {"pending", "wait"}
            /\ reqs[rq].receipt = ""
            /\ reqs[rq].notification = "none"
            /\ \A k \in 1..Len(reqs[rq].calls) :
                  reqs[rq].calls[k] # "submitPurchaseNotification"
            /\ Len(reqs[rq].calls) >= 2
            /\ reqs[rq].calls[2] = "encryptPurchaserName"
            /\ reqs[rq].estimate \in {"", ItemRemovedMsg, RateLimited.message}
            /\ reqs[rq].estimate = ItemRemovedMsg =>
                  /\ reqs[rq].pc = "done"
                  /\ reqs[rq].encryptedName # ""
                  /\ reqs[rq].calls = <<"items", "encryptPurchaserName", "markAsPurchased">>
                  /\ reqs[rq].response =
                        FailedToProcess(ExecutionReverted(ItemRemovedMsg))
            /\ (reqs[rq].pc = "done" /\ reqs[rq].encryptedName # ""
                                     /\ reqs[rq].estimate # RateLimited.message) =>
                  reqs[rq].estimate = ItemRemovedMsg)
    /\ [][\A rq \in RequestIds :
            /\ (/\ ItemReadSettles(rq)
                /\ validItemId(reqs[rq].body.itemId.value)
                /\ ItemAt(reqs[rq].body.itemId.value).isDeleted
                /\ ~ItemAt(reqs[rq].body.itemId.value).isPurchased) =>
                   /\ reqs'[rq].pc = "encryptPurchaserName"
                   /\ reqs'[rq].response = NoResponse
            /\ (rq \in ReadDeletedItem /\ reqs'[rq] # reqs[rq]) =>
                   UNCHANGED <<owner, items, addLog>>]_vars

\* A request for a removed item passed the pre-check, had the name encrypted,
\* and was answered 500 with the store's rejection.
C37_Witness ==
    \E rq \in ReadDeletedItem :
        /\ reqs[rq].pc = "done"
        /\ ItemAt(reqs[rq].body.itemId.value).isDeleted
        /\ reqs[rq].encryptedName # ""
        /\ reqs[rq].estimate = ItemRemovedMsg
        /\ reqs[rq].response.statusCode = 500
        /\ reqs[rq].notification = "none"

\* -------------------------------------------------------------- C38

\* The ids of the entries are 0..k-1, each entry at the position of its id.
Contiguous(entries) == \A k \in 1..Len(entries) : entries[k].id = k - 1

\* The step pushes one entry, the earlier ones staying as they are: the
\* placeholder of the index read, or the item the store holds at that index
\* at this moment.
PushesEntry ==
    /\ Len(list'.entries) = Len(list.entries) + 1
    /\ SubSeq(list'.entries, 1, Len(list.entries)) = list.entries
    /\ LET entry == list'.entries[Len(list'.entries)]
       IN  \/ entry = placeholder(list.index)
           \/ /\ validItemId(list.index)
              /\ entry = formatItem(list.index, ItemAt(list.index))

\* C38, as stated: whatever store operations are mined while GET /items
\* runs, the ids of the response are contiguous from 0, each at its
\* position, the response has no more entries than the store has items when
\* it is produced, and every entry that is not a placeholder is the value
\* the store held at that index at some moment of the listing.
C38_AsStated ==
    /\ [](list.pc = "done" =>
            /\ Contiguous(list.response.items)
            /\ Len(list.response.items) <= Len(items))
    /\ [][list'.entries # list.entries => PushesEntry]_vars

\* C38, amended: the ids of the response are contiguous from 0, each at its
\* position; every entry that is not a placeholder has an id below the
\* number of items of the store and is the value the store held at that
\* index when its read settled, and entries once pushed are not changed; the
\* response has more entries than the store has items only by placeholders
\* of reads that failed.
C38_ListingUnderMutation ==
    /\ [](/\ Contiguous(list.entries)
          /\ \A k \in 1..Len(list.entries) :
                k > Len(items) => list.entries[k] = placeholder(k - 1)
          /\ list.pc = "done" =>
                /\ list.response.statusCode = 200
                /\ list.response.items = list.entries
                /\ list.response.count = Len(list.entries))
    /\ [][/\ list'.entries # list.entries => PushesEntry
          /\ (list.pc = "read" /\ list'.pc = "sleep") =>
                /\ validItemId(list.index)
                /\ Len(list'.entries) = list.index + 1
                /\ list'.entries[list.index + 1] = formatItem(list.index, ItemAt(list.index))
                /\ UNCHANGED <<owner, items>>]_vars

\* The listing answered with item 0 as it was read, available and with its
\* first text; since then the item was updated, purchased and removed, and
\* more items were added than the response has entries.
C38_Witness ==
    /\ list.pc = "done"
    /\ Len(list.response.items) >= 1
    /\ Len(list.response.items) < Len(items)
    /\ list.response.items[1] = formatItem(0, RegistryItem(ListedItem.name,
                                    ListedItem.description, ListedItem.url, ListedItem.imageUrl))
    /\ ItemAt(0).name # ListedItem.name
    /\ ItemAt(0).isPurchased
    /\ ItemAt(0).isDeleted

\* The listing answered with a placeholder at an index the store has no item
\* at.
C38_WitnessPlaceholder ==
    /\ list.pc = "done"
    /\ Len(list.response.items) > Len(items)
    /\ list.response.items[Len(items) + 1] = placeholder(Len(items))

====
